---- MODULE Spec2Model ----
(***************************************************************************)
(* The output lifecycle orchestrator of the LyricDisplay NDI companion:    *)
(* syncOutputs / createOutput / destroyOutput of src/index.js together     *)
(* with the objects they drive, NdiSender (ndi.js), OutputCapture          *)
(* (capture.js, the version whose startScreencast index.js calls) and      *)
(* BrowserManager (browser.js).                                            *)
(*                                                                         *)
(* JavaScript runs one piece of code at a time: a run of syncOutputs       *)
(* executes from one await to the next without interruption.  The variable *)
(* active holds the run that is executing synchronous code (0: the event   *)
(* loop is free); timers, file-watcher events and the resumption of other  *)
(* suspended runs are taken only when active = 0.  A pc value that starts  *)
(* with a lower-case "y_" is a suspension at an await of real I/O.  An     *)
(* await of a promise that is already settled resumes in a microtask,      *)
(* before any timer or I/O callback, so the run keeps the turn across it.  *)
(***************************************************************************)
EXTENDS Integers, Sequences, FiniteSets, TLC

\* ---------------------------------------------------------------- bounds
MaxChanges == 1      \* settings-file change events in a behaviour of Spec
MaxEdits   == 2      \* settings-file change events in a behaviour of SpecEdits
MaxInFlight == 2     \* calls of syncOutputs that have not returned yet
MaxFail    == 1      \* sender or page allocations that fail
MaxObj     == 3      \* pipeline objects (NdiSender/OutputCapture pairs) alive at once
MaxFrames  == 1      \* frames captured, over all OutputCapture objects
MaxSent    == 1      \* frames counted as sent, over all NdiSender objects

MaxLoops   == 2      \* activations of the capture loop or timer callback in flight
MaxShots   == 3      \* captureFrame requests issued for the capture on its own
MaxNow     == 40     \* the last time the clock shows, in ms

MaxSends   == 3      \* calls of sender.video() by the sender on its own
MaxSignals == 2      \* termination signals delivered to the process
MaxStarts == 2       \* calls of startPolling() on a capture that is restarted
MaxCalls == 2        \* calls of initialize() and setSourceName() in flight on a sender
MaxOpens == 3        \* native handles a sender driven on its own opens

RunIds  == 1..MaxInFlight
CallIds == 1..MaxCalls
Ids     == 1..MaxObj

\* ---------------------------------------------------------------- settings
Keys     == {"output1", "output2"}
KeyOrder == <<"output1", "output2">>

Resolutions == {"720p", "1080p", "custom"}
Framerates  == {30, 60}
SourceNames == {"LyricDisplay A", "LyricDisplay B"}

Max(a, b) == IF a > b THEN a ELSE b
Min(a, b) == IF a < b THEN a ELSE b

_getDefaultOutput(outputKey) ==
  [enabled |-> FALSE, resolution |-> "1080p", customWidth |-> 1920,
   customHeight |-> 1080, framerate |-> 30, sourceName |-> "LyricDisplay A"]

\* the documents one edit in the application's NDI preferences can turn the
\* document o of an output into (the last one rewrites the file unchanged)
Edits(o) ==
  {[o EXCEPT !.enabled = ~o.enabled]}
  \cup {[o EXCEPT !.resolution = x, !.customWidth = 1280, !.customHeight = 1080] :
          x \in Resolutions \ {o.resolution}}
  \cup {[o EXCEPT !.framerate = x] : x \in Framerates \ {o.framerate}}
  \cup {[o EXCEPT !.sourceName = x] : x \in SourceNames \ {o.sourceName}}
  \cup {o}

\* a faulty _resolveResolution: custom dimensions are taken as they are
_resolveResolution_unclamped(config) ==
  IF config.resolution = "custom" /\ config.customWidth # 0 /\ config.customHeight # 0
  THEN [width |-> config.customWidth, height |-> config.customHeight]
  ELSE [width |-> 1920, height |-> 1080]

_resolveResolution(config) ==
  IF config.resolution = "custom" /\ config.customWidth # 0 /\ config.customHeight # 0
  THEN [width  |-> Max(320, Min(7680, config.customWidth)),
        height |-> Max(240, Min(4320, config.customHeight))]
  ELSE IF config.resolution = "720p" THEN [width |-> 1280, height |-> 720]
  ELSE IF config.resolution = "4k"   THEN [width |-> 3840, height |-> 2160]
  ELSE [width |-> 1920, height |-> 1080]

\* one entry of getEnabledOutputs(): { key, ...config, ...resolved }
OutputConfig(key, config) ==
  [key |-> key, enabled |-> config.enabled, resolution |-> config.resolution,
   customWidth |-> config.customWidth, customHeight |-> config.customHeight,
   framerate |-> config.framerate, sourceName |-> config.sourceName,
   width |-> _resolveResolution(config).width,
   height |-> _resolveResolution(config).height]

NoConfig ==
  [key |-> "", enabled |-> FALSE, resolution |-> "", customWidth |-> 0,
   customHeight |-> 0, framerate |-> 0, sourceName |-> "", width |-> 0,
   height |-> 0]

RECURSIVE EnabledFrom(_, _)
EnabledFrom(st, n) ==
  IF n > Len(KeyOrder) THEN << >>
  ELSE IF st[KeyOrder[n]].enabled
       THEN <<OutputConfig(KeyOrder[n], st[KeyOrder[n]])>> \o EnabledFrom(st, n + 1)
       ELSE EnabledFrom(st, n + 1)

\* this.settings is null, or a document without an outputs property
NoOutputs == << >>

\* if (!this.settings || !this.settings.outputs) return []
getEnabledOutputs(st) == IF DOMAIN st = {} THEN << >> ELSE EnabledFrom(st, 1)

\* faulty defaults: the outputs of the default settings are enabled
_getDefaults_enabled == [k \in Keys |-> [_getDefaultOutput(k) EXCEPT !.enabled = TRUE]]

\* the outputs of _getDefaults()
_getDefaults == [k \in Keys |-> _getDefaultOutput(k)]

\* what can be found at settingsPath: no file, a file that cannot be read, a
\* file that is not JSON, the document null, a document without outputs, and
\* documents with outputs (the field outputs counts only for these)
BadKinds == {"missing", "unreadable", "unparsable", "null", "noOutputs"}
FileOutputs ==
  {_getDefaultOutput("output1"),
   [_getDefaultOutput("output1") EXCEPT !.enabled = TRUE],
   [_getDefaultOutput("output1") EXCEPT !.enabled = TRUE,
                                        !.sourceName = "LyricDisplay B"],
   [_getDefaultOutput("output1") EXCEPT !.enabled = TRUE, !.resolution = "720p",
                                        !.framerate = 60,
                                        !.sourceName = "LyricDisplay B"]}
Files ==
  {[kind |-> k, outputs |-> _getDefaults] : k \in BadKinds}
  \cup {[kind |-> "outputs", outputs |-> f] :
          f \in {g \in [Keys -> FileOutputs] :
                   g["output2"].sourceName = "LyricDisplay A"}}

\* load(): the value of this.settings afterwards, as far as outputs go
load(f) ==
  IF f.kind = "missing" THEN _getDefaults
  ELSE IF f.kind \in {"unreadable", "unparsable"} THEN _getDefaults
  ELSE IF f.kind \in {"null", "noOutputs"} THEN NoOutputs
  ELSE f.outputs

SeqRange(s) == {s[n] : n \in 1..Len(s)}
enabledKeys(snap) == {snap[n].key : n \in 1..Len(snap)}
ConfigOf(snap, k) == snap[CHOOSE n \in 1..Len(snap) : snap[n].key = k]

\* Math.round(1000 / framerate)
intervalMs(framerate) == (2000 + framerate) \div (2 * framerate)

\* ---------------------------------------------------------------- NdiSender
NoNdi ==
  [made |-> FALSE, sourceName |-> "", sender |-> FALSE, width |-> 0,
   height |-> 0, framerate |-> 0, frameInterval |-> 0, frameCount |-> 0,
   isRunning |-> FALSE, getFrameFn |-> 0, timers |-> 0,
   opened |-> 0, released |-> 0, destroyed |-> FALSE]

\* new NdiSender({ sourceName, width, height, framerate })
NdiSender(config) ==
  [made |-> TRUE,
   sourceName |-> IF config.sourceName # "" THEN config.sourceName ELSE "LyricDisplay",
   sender |-> FALSE, width |-> config.width, height |-> config.height,
   framerate |-> IF config.framerate # 0 THEN config.framerate ELSE 30,
   frameInterval |-> 0, frameCount |-> 0, isRunning |-> FALSE, getFrameFn |-> 0,
   timers |-> 0, opened |-> 0, released |-> 0, destroyed |-> FALSE]

\* the outcome of await grandi.send(...) in initialize()
initialize(s, ok) ==
  IF ok THEN [s EXCEPT !.sender = TRUE, !.opened = @ + 1] ELSE s

\* a faulty startSending: no "if (this.isRunning) return"
startSending_again(s, getFrame) ==
  IF ~s.sender THEN s
  ELSE [s EXCEPT !.isRunning = TRUE, !.getFrameFn = getFrame,
                 !.frameInterval = intervalMs(s.framerate),
                 !.timers = @ + 1]

\* timers counts the setInterval timers of the sender that were not cleared
startSending(s, getFrame) ==
  IF s.isRunning THEN s
  ELSE IF ~s.sender THEN s
  ELSE [s EXCEPT !.isRunning = TRUE, !.getFrameFn = getFrame,
                 !.frameInterval = intervalMs(s.framerate),
                 !.timers = @ + 1]

stopSending(s) ==
  [s EXCEPT !.frameInterval = 0, !.isRunning = FALSE,
            !.timers = IF s.frameInterval # 0 THEN @ - 1 ELSE @]

\* a faulty _destroySender: no "if (this.sender)" around the release
_destroySender_unguarded(s) == [s EXCEPT !.sender = FALSE, !.released = @ + 1]

_destroySender(s) ==
  IF s.sender THEN [s EXCEPT !.sender = FALSE, !.released = @ + 1] ELSE s

\* a faulty destroy(): stopSending() is not called
NdiDestroy_leavesTimer(s) ==
  [_destroySender(s) EXCEPT !.frameCount = 0, !.destroyed = TRUE]

NdiDestroy(s) ==
  [_destroySender(stopSending(s)) EXCEPT !.frameCount = 0, !.destroyed = TRUE]

\* a faulty setFramerate: the timer is restarted, the new rate is not stored
NdiSetFramerate_restartOnly(s, fps) ==
  IF fps = s.framerate THEN s
  ELSE IF s.isRunning THEN startSending(stopSending(s), s.getFrameFn) ELSE s

NdiSetFramerate(s, fps) ==
  IF fps = s.framerate THEN s
  ELSE IF s.isRunning
       THEN startSending(stopSending([s EXCEPT !.framerate = fps]), s.getFrameFn)
       ELSE [s EXCEPT !.framerate = fps]

\* setSourceName up to its await initialize()
setSourceName_begin(s, name) ==
  [_destroySender(stopSending(s)) EXCEPT !.sourceName = name]

\* setSourceName after its await initialize()
setSourceName_end(s, ok, wasRunning, getFrame) ==
  IF wasRunning /\ getFrame # 0
  THEN startSending(initialize(s, ok), getFrame)
  ELSE initialize(s, ok)

\* sender.video() was not called yet
NoSends == [pending |-> 0, thrown |-> 0, rejected |-> 0, failedAt |-> 0,
            during |-> FALSE]

\* ---------------------------------------------------------------- OutputCapture
NoCapture ==
  [made |-> FALSE, outputKey |-> "", framerate |-> 0, _running |-> FALSE,
   _stopScreencast |-> FALSE, castOn |-> FALSE, _pollInterval |-> 0,
   pollOn |-> FALSE, _frameCount |-> 0, _latestFrame |-> 0, decoding |-> FALSE]

\* new OutputCapture({ outputKey, width, height, framerate })
OutputCapture(key, config) ==
  [NoCapture EXCEPT !.made = TRUE, !.outputKey = key,
                    !.framerate = IF config.framerate # 0 THEN config.framerate ELSE 30]

\* startScreencast up to its await browserManager.startScreencast(...)
startScreencast_begin(c) == IF c._running THEN c ELSE [c EXCEPT !._running = TRUE]

\* the subscription succeeded, or it failed and _startPolling took over
startScreencast_end(c, ok) ==
  IF ok THEN [c EXCEPT !._stopScreencast = TRUE, !.castOn = TRUE]
  ELSE [c EXCEPT !._pollInterval = intervalMs(c.framerate), !.pollOn = TRUE]

\* clearInterval(this._pollInterval) leaves the handle in the field
CaptureSetFramerate(c, fps) ==
  IF c._pollInterval # 0
  THEN [c EXCEPT !.framerate = fps, !.pollOn = FALSE]
  ELSE [c EXCEPT !.framerate = fps]

\* stop() up to its await this._stopScreencast()
stop_begin(c) == [c EXCEPT !._running = FALSE]

\* stop() from after that await to its end
stop_end(c) ==
  [c EXCEPT !._stopScreencast = FALSE, !.castOn = FALSE, !._pollInterval = 0,
            !.pollOn = FALSE, !._latestFrame = 0]

\* _processFrame once decodePng has resolved
_processFrame(c) ==
  [c EXCEPT !._latestFrame = c._frameCount + 1, !._frameCount = @ + 1,
            !.decoding = FALSE]

getLatestFrame(c) == c._latestFrame

\* ---------------------------------------------------------------- capture.js, adaptive loop
LoopIds == 1..MaxLoops

\* the time an await takes: a screenshot, a decode
Durations == {5, 20}

\* _latestFrame = null
NullFrame == [data |-> 0, width |-> 0, height |-> 0, timestamp |-> 0]

\* new OutputCapture({ outputKey, width, height, framerate })
AdaptiveCapture(options) ==
  [outputKey |-> options.outputKey,
   width |-> IF options.width # 0 THEN options.width ELSE 1920,
   height |-> IF options.height # 0 THEN options.height ELSE 1080,
   framerate |-> IF options.framerate # 0 THEN options.framerate ELSE 30,
   _running |-> FALSE, _frameCount |-> 0, _lastFrameTime |-> 0,
   _browserManager |-> FALSE, _latestFrame |-> NullFrame]

\* 1000 / this.framerate, as the fraction num/den of a millisecond
targetIntervalOf(framerate) == [num |-> 1000, den |-> framerate]

\* a faulty pacing: targetInterval - elapsed, with no lower limit
sleepMs_unclamped(targetInterval, elapsed) ==
  [num |-> targetInterval.num - elapsed * targetInterval.den,
   den |-> targetInterval.den]

\* Math.max(1, targetInterval - elapsed), over the denominator of targetInterval
sleepMs(targetInterval, elapsed) ==
  [num |-> Max(targetInterval.den,
               targetInterval.num - elapsed * targetInterval.den),
   den |-> targetInterval.den]

\* setTimeout(r, sleepMs): the delay is cut to whole milliseconds, 1 at least
timerDelay(sleep) == Max(1, sleep.num \div sleep.den)

\* the statements of startPolling that change the object
startPolling_begin(c) ==
  IF c._running THEN c ELSE [c EXCEPT !._running = TRUE, !._browserManager = TRUE]

\* a faulty publish: a frame that is held is not replaced
publish_keepsFirst(c, frame, t) ==
  [c EXCEPT !._latestFrame = IF @ = NullFrame THEN frame ELSE @,
            !._lastFrameTime = t, !._frameCount = @ + 1]

\* this._latestFrame = {...}; this._lastFrameTime = Date.now(); this._frameCount++
publish(c, frame, t) ==
  [c EXCEPT !._latestFrame = frame, !._lastFrameTime = t, !._frameCount = @ + 1]

AdaptiveGetLatestFrame(c) == c._latestFrame

AdaptiveSetFramerate(c, fps) == [c EXCEPT !.framerate = fps]

\* a faulty stop(): the frame is left in _latestFrame
AdaptiveStop_keepsFrame(c) ==
  [c EXCEPT !._running = FALSE, !._browserManager = FALSE]

AdaptiveStop(c) ==
  [c EXCEPT !._running = FALSE, !._latestFrame = NullFrame,
            !._browserManager = FALSE]

\* an activation of _captureLoop: its position, its locals, the number of
\* cycles it began, this.framerate as it was when the last one began and how
\* the try block of the last one ended
NoLoop ==
  [pc |-> "none", targetInterval |-> [num |-> 0, den |-> 1], frameStart |-> 0,
   shot |-> 0, elapsed |-> 0, sleepMs |-> [num |-> 0, den |-> 1], wakeAt |-> 0,
   cycles |-> 0, framerate |-> 0, result |-> "", acked |-> FALSE]

\* a faulty loop: the cycle is begun without testing this._running
_captureLoop_while_untested(c, loop, t, n) ==
  [loop EXCEPT !.pc = "y_capture", !.frameStart = t, !.shot = n,
               !.cycles = @ + 1, !.framerate = c.framerate]

\* while (this._running) { const frameStart = Date.now(); ... captureFrame(...)
_captureLoop_while(c, loop, t, n) ==
  IF c._running
  THEN [loop EXCEPT !.pc = "y_capture", !.frameStart = t, !.shot = n,
                    !.cycles = @ + 1, !.framerate = c.framerate]
  ELSE [loop EXCEPT !.pc = "ended"]

\* const elapsed = Date.now() - frameStart; sleepMs; await setTimeout
_captureLoop_pace(loop, t) ==
  LET sleep == sleepMs(loop.targetInterval, t - loop.frameStart)
  IN  [loop EXCEPT !.pc = "y_sleep", !.elapsed = t - loop.frameStart,
                   !.sleepMs = sleep, !.wakeAt = t + timerDelay(sleep)]

\* ---------------------------------------------------------------- BrowserManager
NoPage == [pid |-> 0, width |-> 0, height |-> 0]

\* ---------------------------------------------------------------- a syncOutputs run
NoOps == [k \in Keys |-> [create |-> 0, destroy |-> 0, setFramerate |-> 0,
                          setSourceName |-> 0]]

IdleRun ==
  [pc |-> "idle", snap |-> << >>, keys |-> << >>, i |-> 1, j |-> 1,
   ret |-> << >>, key |-> "", out |-> 0, id |-> 0, res |-> 0, pid |-> 0,
   needsRecreate |-> FALSE, wasRunning |-> FALSE, getFrame |-> 0,
   ops |-> NoOps, startOut |-> [k \in Keys |-> 0], failed |-> FALSE,
   overlapped |-> FALSE, again |-> FALSE, clean |-> FALSE,
   fpsOnly |-> "", sizeOnly |-> "", nameOnly |-> ""]

\* what is remembered of the call of syncOutputs that returned last
NoLast == [valid |-> FALSE, snap |-> << >>, failed |-> FALSE, overlapped |-> FALSE]

VARIABLES
  settings,   \* settings.settings.outputs
  browser,    \* browserManager.browser is launched
  pages,      \* browserManager.pages: outputKey -> entry
  openPgs,    \* the browser pages that are open, by the pipeline that opened them
  outputs,    \* index.js outputs: outputKey -> pipeline (0: no property)
  order,      \* Object.keys(outputs), in insertion order
  config,     \* output.config of each pipeline object
  ndi,        \* output.ndiSender of each pipeline object
  cap,        \* output.capture of each pipeline object
  runs,       \* the calls of syncOutputs
  last,       \* the snapshot of the call of syncOutputs that returned last
  active,     \* the run executing synchronous code, 0 when none
  changes,    \* change events delivered so far
  failures,   \* allocations that failed so far
  oc,         \* an OutputCapture driven on its own, outside a pipeline
  loops,      \* its activations of _captureLoop and of the timer callback
  now,        \* Date.now(), in ms
  shots,      \* the captureFrame requests issued for it so far
  published,  \* the frames stored in _latestFrame since the last stop()
  starts,     \* the calls of its start method so far
  tx,         \* an NdiSender driven on its own, reading the frames of oc
  sent,       \* the frames handed to sender.video() so far
  sends,      \* the calls of sender.video(): pending, thrown, rejected
  inits,      \* its calls of initialize() and setSourceName() in flight
  file,       \* the settings file on disk, where the model follows it
  down        \* the call of shutdown()

mainVars == <<settings, browser, pages, openPgs, outputs, order, config, ndi, cap,
              runs, last, active, changes, failures>>
txVars == <<tx, sent, sends, inits>>
hostVars == <<file, down>>
unitVars == <<oc, loops, now, shots, published, starts, txVars, hostVars>>
vars == <<mainVars, unitVars>>

\* the settings file is not followed
NoFile == [kind |-> "", outputs |-> << >>]

\* let isShuttingDown = false; no signal handler is registered yet, no call
\* of shutdown() was made and none is running
NoShutdown == [isShuttingDown |-> FALSE, pc |-> "idle", run |-> 0, calls |-> 0]

\* the process runs, its settings are the file's
NoHost == file = NoFile /\ down = NoShutdown

\* a call of initialize() or setSourceName() on the sender driven on its own;
\* late: a call was begun here after destroy()
NoCall == [pc |-> "idle", wasRunning |-> FALSE, getFrame |-> 0, late |-> FALSE]
NoCalls == [c \in CallIds |-> NoCall]

\* no sender is driven on its own
NoSender == tx = NoNdi /\ sent = << >> /\ sends = NoSends /\ inits = NoCalls

Init ==
  /\ settings \in [Keys -> {[_getDefaultOutput(k) EXCEPT !.enabled = b] :
                              k \in Keys, b \in BOOLEAN}]
  /\ browser = FALSE
  /\ pages = [k \in Keys |-> NoPage]
  /\ openPgs = {}
  /\ outputs = [k \in Keys |-> 0]
  /\ order = << >>
  /\ config = [n \in Ids |-> NoConfig]
  /\ ndi = [n \in Ids |-> NoNdi]
  /\ cap = [n \in Ids |-> NoCapture]
  /\ runs = [r \in RunIds |-> IdleRun]
  /\ last = NoLast
  /\ active = 0
  /\ changes = 0
  /\ failures = 0
  /\ oc = NoCapture
  /\ loops = [l \in LoopIds |-> NoLoop]
  /\ now = 0
  /\ shots = 0
  /\ published = << >>
  /\ starts = 0
  /\ NoSender
  /\ NoHost

\* ---------------------------------------------------------------- helpers
RECURSIVE Sum(_, _)
Sum(f, S) == IF S = {} THEN 0
             ELSE LET x == CHOOSE y \in S : TRUE IN f[x] + Sum(f, S \ {x})

FramesCaptured == Sum([n \in Ids |-> cap[n]._frameCount + (IF cap[n].decoding THEN 1 ELSE 0)], Ids)
FramesSent     == Sum([n \in Ids |-> ndi[n].frameCount], Ids)

InFlight == {r \in RunIds : runs[r].pc # "idle"}

\* a pipeline object nothing refers to any more and nothing keeps alive: no
\* map entry, no local of a run, no timer, no native handle, no subscription
Referenced(n) ==
  \/ \E k \in Keys : outputs[k] = n
  \/ \E r \in RunIds : runs[r].out = n \/ runs[r].id = n \/ runs[r].pid = n
  \/ \E k \in Keys : pages[k].pid = n
  \/ n \in openPgs
Inert(n) ==
  /\ ndi[n].frameInterval = 0 /\ ~ndi[n].sender
  /\ ~cap[n].castOn /\ ~cap[n].pollOn /\ ~cap[n].decoding
Garbage == {n \in Ids : ndi[n].made /\ ~Referenced(n) /\ Inert(n)}

\* the identity given to the next pipeline object constructed
Unmade == {n \in Ids : ~ndi[n].made}
NewId  == CHOOSE n \in Unmade : \A m \in Unmade : n <= m

\* the event loop takes the next task
Free == active = 0 /\ Garbage = {}

Suspended(r, label) == Free /\ runs[r].pc = label
Running(r, label)   == active = r /\ runs[r].pc = label

\* the config the loop at index.js:131 is looking at
Cfg(r) == runs[r].snap[runs[r].j]

Bump(ops, k, f) == [ops EXCEPT ![k][f] = @ + 1]

RemoveKey(s, k) == SelectSeq(s, LAMBDA x : x # k)
InsertKey(s, k) == IF k \in SeqRange(s) THEN s ELSE Append(s, k)

\* the fields of a config that syncOutputs compares with the snapshot
Tracked == {"width", "height", "framerate", "sourceName"}

\* the active map holds the enabled outputs of snap with the values of snap,
\* except that the fields F of output k differ
DiffersOnlyIn(snap, k, F) ==
  /\ k \in enabledKeys(snap)
  /\ enabledKeys(snap) = {q \in Keys : outputs[q] # 0}
  /\ \A n \in 1..Len(snap) :
       LET c == snap[n]
           a == config[outputs[c.key]]
       IN  IF c.key = k
           THEN /\ \A f \in Tracked \ F : c[f] = a[f]
                /\ \E f \in F : c[f] # a[f]
           ELSE \A f \in Tracked : c[f] = a[f]

OnlyKey(snap, F) ==
  IF \E k \in Keys : DiffersOnlyIn(snap, k, F)
  THEN CHOOSE k \in Keys : DiffersOnlyIn(snap, k, F)
  ELSE ""

FreeRuns == {r \in RunIds : runs[r].pc = "idle"}
FreeRun  == CHOOSE r \in FreeRuns : \A q \in FreeRuns : r <= q

\* the first synchronous statements of syncOutputs, index.js:120-121
syncOutputs_begin(r, st) ==
  [q \in RunIds |->
     IF q = r
     THEN [IdleRun EXCEPT
             !.pc = "rm_loop",
             !.snap = getEnabledOutputs(st),
             !.keys = order,
             !.startOut = outputs,
             !.overlapped = (InFlight # {}),
             !.again = (InFlight = {} /\ last.valid
                        /\ last.snap = getEnabledOutputs(st)),
             !.clean = (~last.failed /\ ~last.overlapped),
             !.fpsOnly = OnlyKey(getEnabledOutputs(st), {"framerate"}),
             !.sizeOnly = OnlyKey(getEnabledOutputs(st), {"width", "height"}),
             !.nameOnly = OnlyKey(getEnabledOutputs(st), {"sourceName"})]
     ELSE IF q \in InFlight THEN [runs[q] EXCEPT !.overlapped = TRUE]
     ELSE runs[q]]

\* ---------------------------------------------------------------- main()
\* await browserManager.launch() resolves and main calls syncOutputs()
launch ==
  /\ Free /\ ~browser /\ FreeRuns # {}
  /\ browser' = TRUE
  /\ runs' = syncOutputs_begin(FreeRun, settings)
  /\ active' = FreeRun
  /\ UNCHANGED <<settings, pages, openPgs, outputs, order, config, ndi, cap,
                 last, changes, failures>>
  /\ UNCHANGED unitVars

\* the watcher's 'change' handler: load(), emit('changed'), onSettingsChanged
onSettingsChanged(k, o) ==
  /\ Free /\ FreeRuns # {}
  /\ settings' = [settings EXCEPT ![k] = o]
  /\ changes' = changes + 1
  /\ runs' = syncOutputs_begin(FreeRun, settings')
  /\ active' = FreeRun
  /\ UNCHANGED <<browser, pages, openPgs, outputs, order, config, ndi, cap,
                 last, failures>>
  /\ UNCHANGED unitVars

\* ---------------------------------------------------------------- syncOutputs
\* for (const key of Object.keys(outputs)) if (!enabledKeys.has(key)) ...
syncOutputs_remove(r) ==
  /\ Running(r, "rm_loop")
  /\ LET run == runs[r] IN
       IF run.i > Len(run.keys)
       THEN runs' = [runs EXCEPT ![r].pc = "up_loop", ![r].j = 1]
       ELSE IF run.keys[run.i] \notin enabledKeys(run.snap)
            THEN runs' = [runs EXCEPT ![r].pc = "destroyOutput",
                                      ![r].key = run.keys[run.i],
                                      ![r].ret = <<"rm_loop">>,
                                      ![r].i = @ + 1,
                                      ![r].ops = Bump(@, run.keys[run.i], "destroy")]
            ELSE runs' = [runs EXCEPT ![r].i = @ + 1]
  /\ UNCHANGED <<settings, browser, pages, openPgs, outputs, order, config, ndi,
                 cap, last, active, changes, failures>>
  /\ UNCHANGED unitVars

\* for (const outputConfig of enabledOutputs): existing, needsRecreate, framerate
syncOutputs_update(r) ==
  /\ Running(r, "up_loop")
  /\ LET run == runs[r] IN
       IF run.j > Len(run.snap)
       THEN /\ runs' = [runs EXCEPT ![r].pc = "return"]
            /\ active' = r
            /\ UNCHANGED <<ndi, cap, config>>
       ELSE LET cfg == run.snap[run.j]
                e   == outputs[cfg.key]
            IN  /\ active' = r
                /\ IF e = 0
                   THEN /\ runs' = [runs EXCEPT ![r].pc = "createOutput",
                                                ![r].key = cfg.key]
                        /\ UNCHANGED <<ndi, cap, config>>
                   ELSE /\ IF config[e].framerate # cfg.framerate
                           THEN /\ ndi' = [ndi EXCEPT ![e] = NdiSetFramerate(@, cfg.framerate)]
                                /\ cap' = [cap EXCEPT ![e] = CaptureSetFramerate(@, cfg.framerate)]
                                /\ config' = [config EXCEPT ![e].framerate = cfg.framerate]
                           ELSE UNCHANGED <<ndi, cap, config>>
                        /\ runs' = [runs EXCEPT
                             ![r].pc = "u_name", ![r].key = cfg.key, ![r].out = e,
                             ![r].needsRecreate = (config[e].width # cfg.width
                                                   \/ config[e].height # cfg.height),
                             ![r].ops = IF config[e].framerate # cfg.framerate
                                        THEN Bump(@, cfg.key, "setFramerate") ELSE @]
  /\ UNCHANGED <<settings, browser, pages, openPgs, outputs, order, last, changes, failures>>
  /\ UNCHANGED unitVars

\* if (oldConfig.sourceName !== outputConfig.sourceName) await setSourceName(...)
syncOutputs_name(r) ==
  /\ Running(r, "u_name")
  /\ LET run == runs[r]
         e   == run.out
         cfg == Cfg(r)
     IN  IF config[e].sourceName # cfg.sourceName
         THEN IF cfg.sourceName = ndi[e].sourceName
              THEN /\ runs' = [runs EXCEPT ![r].pc = "n_same",
                                 ![r].ops = Bump(@, cfg.key, "setSourceName")]
                   /\ active' = r
                   /\ UNCHANGED ndi
              ELSE /\ runs' = [runs EXCEPT ![r].pc = "y_rename",
                                 ![r].wasRunning = ndi[e].isRunning,
                                 ![r].getFrame = ndi[e].getFrameFn,
                                 ![r].ops = Bump(@, cfg.key, "setSourceName")]
                   /\ ndi' = [ndi EXCEPT ![e] = setSourceName_begin(@, cfg.sourceName)]
                   /\ active' = 0
         ELSE /\ runs' = [runs EXCEPT ![r].pc = "u_recreate"]
              /\ UNCHANGED <<ndi, active>>
  /\ UNCHANGED <<settings, browser, pages, openPgs, outputs, order, config, cap,
                 last, changes, failures>>
  /\ UNCHANGED unitVars

\* a faulty rename: the capture is stopped when the sender is reopened
setSourceName_resume_stopsCapture(r, ok) ==
  /\ Suspended(r, "y_rename")
  /\ LET run == runs[r] IN
       /\ ndi' = [ndi EXCEPT ![run.out] =
                    setSourceName_end(@, ok, run.wasRunning, run.getFrame)]
       /\ cap' = [cap EXCEPT ![run.out] = stop_end(stop_begin(@))]
       /\ config' = [config EXCEPT ![run.out].sourceName = Cfg(r).sourceName]
       /\ runs' = [runs EXCEPT ![r].pc = "u_recreate",
                               ![r].failed = (@ \/ ~ok)]
  /\ active' = r
  /\ UNCHANGED <<settings, browser, pages, openPgs, outputs, order, last, changes>>
  /\ ok \/ failures < MaxFail
  /\ failures' = IF ok THEN failures ELSE failures + 1
  /\ UNCHANGED unitVars

\* await this.initialize() inside setSourceName settles
setSourceName_resume(r, ok) ==
  /\ Suspended(r, "y_rename")
  /\ LET run == runs[r] IN
       /\ ndi' = [ndi EXCEPT ![run.out] =
                    setSourceName_end(@, ok, run.wasRunning, run.getFrame)]
       /\ config' = [config EXCEPT ![run.out].sourceName = Cfg(r).sourceName]
       /\ runs' = [runs EXCEPT ![r].pc = "u_recreate",
                               ![r].failed = (@ \/ ~ok)]
  /\ active' = r
  /\ UNCHANGED <<settings, browser, pages, openPgs, outputs, order, cap, last, changes>>
  /\ ok \/ failures < MaxFail
  /\ failures' = IF ok THEN failures ELSE failures + 1
  /\ UNCHANGED unitVars

\* if (needsRecreate) { await destroyOutput(key); ... createOutput(key, cfg) }
syncOutputs_recreate(r) ==
  /\ Running(r, "u_recreate")
  /\ IF runs[r].needsRecreate
     THEN runs' = [runs EXCEPT ![r].pc = "destroyOutput",
                               ![r].ret = <<"createOutput">>,
                               ![r].ops = Bump(@, runs[r].key, "destroy")]
     ELSE runs' = [runs EXCEPT ![r].pc = "up_loop", ![r].j = @ + 1, ![r].out = 0,
                               ![r].wasRunning = FALSE, ![r].getFrame = 0]
  /\ UNCHANGED <<settings, browser, pages, openPgs, outputs, order, config, ndi,
                 cap, last, active, changes, failures>>
  /\ UNCHANGED unitVars

\* the end of syncOutputs: the promise of the call resolves
syncOutputs_return(r) ==
  /\ Running(r, "return")
  /\ runs' = [runs EXCEPT ![r] = IdleRun]
  /\ last' = [valid |-> TRUE, snap |-> runs[r].snap, failed |-> runs[r].failed,
              overlapped |-> runs[r].overlapped]
  /\ active' = 0
  /\ UNCHANGED <<settings, browser, pages, openPgs, outputs, order, config, ndi,
                 cap, changes, failures>>
  /\ UNCHANGED unitVars

\* a faulty syncOutputs: createOutput is called again when it returned null
syncOutputs_insert_retries(r) ==
  /\ Running(r, "c_ret")
  /\ LET run == runs[r] IN
       IF run.res # 0
       THEN /\ outputs' = [outputs EXCEPT ![run.key] = run.res]
            /\ order' = InsertKey(order, run.key)
            /\ runs' = [runs EXCEPT ![r].pc = "up_loop", ![r].j = @ + 1,
                                    ![r].id = 0, ![r].res = 0, ![r].pid = 0,
                                    ![r].needsRecreate = FALSE,
                                    ![r].wasRunning = FALSE, ![r].getFrame = 0]
       ELSE /\ runs' = [runs EXCEPT ![r].pc = "createOutput", ![r].id = 0]
            /\ UNCHANGED <<outputs, order>>
  /\ UNCHANGED <<settings, browser, pages, openPgs, config, ndi, cap,
                 last, active, changes, failures>>
  /\ UNCHANGED unitVars

\* a faulty syncOutputs: a createOutput that returned null ends the call
syncOutputs_insert_aborts(r) ==
  /\ Running(r, "c_ret")
  /\ LET run == runs[r] IN
       IF run.res # 0
       THEN /\ outputs' = [outputs EXCEPT ![run.key] = run.res]
            /\ order' = InsertKey(order, run.key)
            /\ runs' = [runs EXCEPT ![r].pc = "up_loop", ![r].j = @ + 1,
                                    ![r].id = 0, ![r].res = 0, ![r].pid = 0,
                                    ![r].needsRecreate = FALSE,
                                    ![r].wasRunning = FALSE, ![r].getFrame = 0]
       ELSE /\ runs' = [runs EXCEPT ![r].pc = "return", ![r].id = 0]
            /\ UNCHANGED <<outputs, order>>
  /\ UNCHANGED <<settings, browser, pages, openPgs, config, ndi, cap,
                 last, active, changes, failures>>
  /\ UNCHANGED unitVars

\* const output = await createOutput(...); if (output) outputs[key] = output
syncOutputs_insert(r) ==
  /\ Running(r, "c_ret")
  /\ LET run == runs[r] IN
       /\ IF run.res # 0
          THEN /\ outputs' = [outputs EXCEPT ![run.key] = run.res]
               /\ order' = InsertKey(order, run.key)
          ELSE UNCHANGED <<outputs, order>>
       /\ runs' = [runs EXCEPT ![r].pc = "up_loop", ![r].j = @ + 1,
                               ![r].id = 0, ![r].res = 0, ![r].pid = 0,
                               ![r].needsRecreate = FALSE,
                               ![r].wasRunning = FALSE, ![r].getFrame = 0]
  /\ UNCHANGED <<settings, browser, pages, openPgs, config, ndi, cap, last, active, changes, failures>>
  /\ UNCHANGED unitVars

\* ---------------------------------------------------------------- destroyOutput
\* const output = outputs[outputKey]; if (!output) return; output.ndiSender.destroy()
destroyOutput(r) ==
  /\ Running(r, "destroyOutput")
  /\ LET o == outputs[runs[r].key] IN
       IF o = 0
       THEN /\ runs' = [runs EXCEPT ![r].pc = "d_noout"]
            /\ active' = r
            /\ UNCHANGED ndi
       ELSE /\ runs' = [runs EXCEPT ![r].pc = "d_stop", ![r].out = o]
            /\ ndi' = [ndi EXCEPT ![o] = NdiDestroy(@)]
            /\ active' = r
  /\ UNCHANGED <<settings, browser, pages, openPgs, outputs, order, config, cap,
                 last, changes, failures>>
  /\ UNCHANGED unitVars

\* await output.capture.stop(), up to the first await inside stop()
destroyOutput_stop(r) ==
  /\ Running(r, "d_stop")
  /\ LET o == runs[r].out IN
       IF cap[o]._stopScreencast
       THEN /\ cap' = [cap EXCEPT ![o] = stop_begin(@)]
            /\ runs' = [runs EXCEPT ![r].pc = "y_stopcast"]
            /\ active' = 0
       ELSE /\ cap' = [cap EXCEPT ![o] = stop_end(stop_begin(@))]
            /\ runs' = [runs EXCEPT ![r].pc = "d_stopped"]
            /\ active' = r
  /\ UNCHANGED <<settings, browser, pages, openPgs, outputs, order, config, ndi,
                 last, changes, failures>>
  /\ UNCHANGED unitVars

\* await this._stopScreencast() settles; stop() runs to its end
stop_resume(r) ==
  /\ Suspended(r, "y_stopcast")
  /\ cap' = [cap EXCEPT ![runs[r].out] = stop_end(@)]
  /\ runs' = [runs EXCEPT ![r].pc = "destroyOutputPage",
                          ![r].ret = <<"d_delete">> \o @]
  /\ active' = r
  /\ UNCHANGED <<settings, browser, pages, openPgs, outputs, order, config, ndi,
                 last, changes, failures>>
  /\ UNCHANGED unitVars

\* delete outputs[outputKey]
destroyOutput_delete(r) ==
  /\ Running(r, "d_delete")
  /\ outputs' = [outputs EXCEPT ![runs[r].key] = 0]
  /\ order' = RemoveKey(order, runs[r].key)
  /\ runs' = [runs EXCEPT ![r].pc = Head(runs[r].ret), ![r].ret = Tail(@),
                          ![r].out = 0, ![r].pid = 0]
  /\ UNCHANGED <<settings, browser, pages, openPgs, config, ndi, cap, last, active, changes, failures>>
  /\ UNCHANGED unitVars

\* ---------------------------------------------------------------- BrowserManager
\* destroyOutputPage up to its await entry.page.close()
destroyOutputPage(r) ==
  /\ Running(r, "destroyOutputPage")
  /\ LET entry == pages[runs[r].key] IN
       IF entry.pid = 0
       THEN /\ runs' = [runs EXCEPT ![r].pc = "p_none"]
            /\ active' = r
            /\ UNCHANGED pages
       ELSE IF entry.pid \in openPgs
            THEN /\ runs' = [runs EXCEPT ![r].pc = "y_close", ![r].pid = entry.pid]
                 /\ active' = 0
                 /\ UNCHANGED pages
            ELSE /\ runs' = [runs EXCEPT ![r].pc = "p_none"]
                 /\ active' = r
                 /\ pages' = [pages EXCEPT ![runs[r].key] = NoPage]
  /\ UNCHANGED <<settings, browser, openPgs, outputs, order, config, ndi, cap,
                 last, changes, failures>>
  /\ UNCHANGED unitVars

\* await entry.page.close() settles; this.pages.delete(outputKey)
destroyOutputPage_close(r) ==
  /\ Suspended(r, "y_close")
  /\ openPgs' = openPgs \ {runs[r].pid}
  /\ pages' = [pages EXCEPT ![runs[r].key] = NoPage]
  /\ runs' = [runs EXCEPT ![r].pc = Head(runs[r].ret), ![r].ret = Tail(@)]
  /\ active' = r
  /\ UNCHANGED <<settings, browser, outputs, order, config, ndi, cap, last, changes, failures>>
  /\ UNCHANGED unitVars

\* ---------------------------------------------------------------- microtasks
\* an await whose promise was settled without I/O resumes in a microtask:
\* destroyOutput returned at "if (!output) return", stop() had no subscription
\* to await, destroyOutputPage had no open page to close, setSourceName
\* returned at "if (name === this.sourceName) return"
resumed(r) ==
  /\ active = r
  /\ runs[r].pc \in {"d_noout", "d_stopped", "p_none", "n_same"}
  /\ IF runs[r].pc = "n_same"
     THEN /\ config' = [config EXCEPT ![runs[r].out].sourceName = Cfg(r).sourceName]
          /\ runs' = [runs EXCEPT ![r].pc = "u_recreate"]
     ELSE /\ UNCHANGED config
          /\ IF runs[r].pc = "d_stopped"
             THEN runs' = [runs EXCEPT ![r].pc = "destroyOutputPage",
                                       ![r].ret = <<"d_delete">> \o @]
             ELSE runs' = [runs EXCEPT ![r].pc = Head(runs[r].ret), ![r].ret = Tail(@)]
  /\ UNCHANGED <<settings, browser, pages, openPgs, outputs, order, ndi, cap,
                 last, active, changes, failures>>
  /\ UNCHANGED unitVars

\* ---------------------------------------------------------------- createOutput
\* new NdiSender(...); await ndiSender.initialize()
createOutput(r) ==
  /\ Running(r, "createOutput")
  /\ Unmade # {}
  /\ ndi' = [ndi EXCEPT ![NewId] = NdiSender(Cfg(r))]
  /\ runs' = [runs EXCEPT ![r].pc = "y_init", ![r].id = NewId, ![r].res = 0,
                          ![r].ret = << >>,
                          ![r].ops = Bump(@, runs[r].key, "create")]
  /\ active' = 0
  /\ UNCHANGED <<settings, browser, pages, openPgs, outputs, order, config, cap,
                 last, changes, failures>>
  /\ UNCHANGED unitVars

\* initialize() settles; on success createOutputPage starts
createOutput_initialized(r, ok) ==
  /\ Suspended(r, "y_init")
  /\ LET n == runs[r].id IN
       IF ~ok
       THEN /\ runs' = [runs EXCEPT ![r].pc = "c_ret", ![r].res = 0,
                                    ![r].failed = TRUE]
            /\ UNCHANGED ndi
       ELSE IF ~browser
            THEN /\ ndi' = [ndi EXCEPT ![n] = NdiDestroy(initialize(@, TRUE))]
                 /\ runs' = [runs EXCEPT ![r].pc = "c_ret", ![r].res = 0,
                                         ![r].failed = TRUE]
            ELSE /\ ndi' = [ndi EXCEPT ![n] = initialize(@, TRUE)]
                 /\ runs' = [runs EXCEPT ![r].pc = "destroyOutputPage",
                                         ![r].ret = <<"c_page">>]
  /\ active' = r
  /\ UNCHANGED <<settings, browser, pages, openPgs, outputs, order, config, cap,
                 last, changes>>
  /\ ok \/ failures < MaxFail
  /\ failures' = IF ok THEN failures ELSE failures + 1
  /\ UNCHANGED unitVars

\* const page = await this.browser.newPage()
createOutputPage_newPage(r) ==
  /\ Running(r, "c_page")
  /\ runs' = [runs EXCEPT ![r].pc = "y_newpage"]
  /\ active' = 0
  /\ UNCHANGED <<settings, browser, pages, openPgs, outputs, order, config, ndi,
                 cap, last, changes, failures>>
  /\ UNCHANGED unitVars

\* newPage() settles; setViewport, goto and the hydration sleep follow
createOutputPage_opened(r, ok) ==
  /\ Suspended(r, "y_newpage")
  /\ LET n == runs[r].id IN
       IF ok
       THEN /\ openPgs' = openPgs \cup {n}
            /\ runs' = [runs EXCEPT ![r].pc = "y_setup"]
            /\ active' = 0
            /\ UNCHANGED ndi
       ELSE /\ ndi' = [ndi EXCEPT ![n] = NdiDestroy(@)]
            /\ runs' = [runs EXCEPT ![r].pc = "c_ret", ![r].res = 0,
                                    ![r].failed = TRUE]
            /\ active' = r
            /\ UNCHANGED openPgs
  /\ UNCHANGED <<settings, browser, pages, outputs, order, config, cap, last, changes>>
  /\ ok \/ failures < MaxFail
  /\ failures' = IF ok THEN failures ELSE failures + 1
  /\ UNCHANGED unitVars

\* setViewport/goto/sleep settle: this.pages.set(...), then the capture is
\* constructed and startScreencast runs up to its await
createOutputPage_ready(r, ok) ==
  /\ Suspended(r, "y_setup")
  /\ LET n == runs[r].id
         k == runs[r].key
     IN  IF ok
         THEN /\ pages' = [pages EXCEPT ![k] = [pid |-> n, width |-> Cfg(r).width,
                                                height |-> Cfg(r).height]]
              /\ cap' = [cap EXCEPT ![n] = startScreencast_begin(OutputCapture(k, Cfg(r)))]
              /\ runs' = [runs EXCEPT ![r].pc = "y_cast"]
              /\ active' = 0
              /\ UNCHANGED ndi
         ELSE /\ ndi' = [ndi EXCEPT ![n] = NdiDestroy(@)]
              /\ runs' = [runs EXCEPT ![r].pc = "c_ret", ![r].res = 0,
                                      ![r].failed = TRUE]
              /\ active' = r
              /\ UNCHANGED <<pages, cap>>
  /\ UNCHANGED <<settings, browser, openPgs, outputs, order, config, last, changes>>
  /\ ok \/ failures < MaxFail
  /\ failures' = IF ok THEN failures ELSE failures + 1
  /\ UNCHANGED unitVars

\* a faulty createOutput: output.config keeps the entry of the settings file,
\* without the resolved width and height
createOutput_started_unresolved(r, ok) ==
  /\ Suspended(r, "y_cast")
  /\ LET n == runs[r].id IN
       /\ cap' = [cap EXCEPT ![n] = startScreencast_end(@, ok)]
       /\ ndi' = [ndi EXCEPT ![n] = startSending(@, n)]
       /\ config' = [config EXCEPT ![n] = [Cfg(r) EXCEPT !.width = 0, !.height = 0]]
       /\ runs' = [runs EXCEPT ![r].pc = "c_ret", ![r].res = n]
  /\ active' = r
  /\ UNCHANGED <<settings, browser, pages, openPgs, outputs, order,
                 last, changes, failures>>
  /\ UNCHANGED unitVars

\* startScreencast settles; ndiSender.startSending(...); return output
\* a faulty createOutput: the sender of a recreated pipeline is given the
\* buffer of the pipeline that had the key when the call of syncOutputs began
createOutput_started_oldBuffer(r, ok) ==
  /\ Suspended(r, "y_cast")
  /\ LET n == runs[r].id
         o == runs[r].startOut[runs[r].key]
     IN
       /\ cap' = [cap EXCEPT ![n] = startScreencast_end(@, ok)]
       /\ ndi' = [ndi EXCEPT ![n] = startSending(@, IF o # 0 THEN o ELSE n)]
       /\ config' = [config EXCEPT ![n] = Cfg(r)]
       /\ runs' = [runs EXCEPT ![r].pc = "c_ret", ![r].res = n]
  /\ active' = r
  /\ UNCHANGED <<settings, browser, pages, openPgs, outputs, order, last, changes, failures>>
  /\ UNCHANGED unitVars

createOutput_started(r, ok) ==
  /\ Suspended(r, "y_cast")
  /\ LET n == runs[r].id IN
       /\ cap' = [cap EXCEPT ![n] = startScreencast_end(@, ok)]
       /\ ndi' = [ndi EXCEPT ![n] = startSending(@, n)]
       /\ config' = [config EXCEPT ![n] = Cfg(r)]
       /\ runs' = [runs EXCEPT ![r].pc = "c_ret", ![r].res = n]
  /\ active' = r
  /\ UNCHANGED <<settings, browser, pages, openPgs, outputs, order, last, changes, failures>>
  /\ UNCHANGED unitVars

\* ---------------------------------------------------------------- timers
\* the setInterval callback of startSending: _sendFrame()
_sendFrame(n) ==
  /\ Free
  /\ ndi[n].frameInterval # 0
  /\ FramesSent < MaxSent
  /\ ndi[n].sender /\ ndi[n].getFrameFn # 0
  /\ getLatestFrame(cap[ndi[n].getFrameFn]) # 0
  /\ ndi' = [ndi EXCEPT ![n].frameCount = @ + 1]
  /\ UNCHANGED <<settings, browser, pages, openPgs, outputs, order, config, cap,
                 runs, last, active, changes, failures>>
  /\ UNCHANGED unitVars

\* a Page.screencastFrame event is acknowledged and handed to _processFrame
screencastFrame(n) ==
  /\ Free
  /\ cap[n].castOn /\ n \in openPgs
  /\ ~cap[n].decoding /\ FramesCaptured < MaxFrames
  /\ cap' = [cap EXCEPT ![n].decoding = TRUE]
  /\ UNCHANGED <<settings, browser, pages, openPgs, outputs, order, config, ndi,
                 runs, last, active, changes, failures>>
  /\ UNCHANGED unitVars

\* a tick of the _startPolling timer whose captureFrame returned a screenshot
pollTick(n) ==
  /\ Free
  /\ cap[n].pollOn /\ cap[n]._running
  /\ pages[cap[n].outputKey].pid \in openPgs
  /\ ~cap[n].decoding /\ FramesCaptured < MaxFrames
  /\ cap' = [cap EXCEPT ![n].decoding = TRUE]
  /\ UNCHANGED <<settings, browser, pages, openPgs, outputs, order, config, ndi,
                 runs, last, active, changes, failures>>
  /\ UNCHANGED unitVars

\* decodePng resolves inside _processFrame
decoded(n) ==
  /\ Free
  /\ cap[n].decoding
  /\ cap' = [cap EXCEPT ![n] = _processFrame(@)]
  /\ UNCHANGED <<settings, browser, pages, openPgs, outputs, order, config, ndi,
                 runs, last, active, changes, failures>>
  /\ UNCHANGED unitVars

\* an unreachable, inert pipeline object is reclaimed
collect(n) ==
  /\ active = 0
  /\ n \in Garbage
  /\ ndi' = [ndi EXCEPT ![n] = NoNdi]
  /\ cap' = [cap EXCEPT ![n] = NoCapture]
  /\ config' = [config EXCEPT ![n] = NoConfig]
  /\ UNCHANGED <<settings, browser, pages, openPgs, outputs, order, runs, last, active, changes, failures>>
  /\ UNCHANGED unitVars

\* ---------------------------------------------------------------- specification
\* a step of a call of syncOutputs
Run ==
  \E r \in RunIds :
       \/ syncOutputs_remove(r)
       \/ syncOutputs_update(r)
       \/ syncOutputs_name(r)
       \/ syncOutputs_recreate(r)
       \/ syncOutputs_insert(r)
       \/ syncOutputs_return(r)
       \/ resumed(r)
       \/ destroyOutput(r)
       \/ destroyOutput_stop(r)
       \/ stop_resume(r)
       \/ destroyOutput_delete(r)
       \/ destroyOutputPage(r)
       \/ destroyOutputPage_close(r)
       \/ createOutput(r)
       \/ createOutputPage_newPage(r)
       \/ \E ok \in BOOLEAN :
            \/ setSourceName_resume(r, ok)
            \/ createOutput_initialized(r, ok)
            \/ createOutputPage_opened(r, ok)
            \/ createOutputPage_ready(r, ok)
            \/ createOutput_started(r, ok)

\* the watcher's debounce timer fires after the settings file was saved
changed ==
  /\ changes < MaxChanges
  /\ \E k \in Keys : \E o \in Edits(settings[k]) : onSettingsChanged(k, o)

\* the same, for a file that is saved only once the startup call of
\* syncOutputs has returned
changedLater ==
  /\ last.valid /\ changes < MaxEdits
  /\ \E k \in Keys : \E o \in Edits(settings[k]) : onSettingsChanged(k, o)

\* the settings file is saved at any moment, the timers tick
Next ==
  \/ launch
  \/ changed
  \/ Run
  \/ \E n \in Ids :
       \/ _sendFrame(n)
       \/ screencastFrame(n)
       \/ pollTick(n)
       \/ decoded(n)
       \/ collect(n)

Spec == Init /\ [][Next]_vars

\* ---------------------------------------------------------------- the resolution of an output
\* the resolution settings of a document: the presets, custom, and a name
\* that is no preset; custom dimensions below, at and above the limits
AnyResolutions == Resolutions \cup {"4k", "2160p"}
CustomWidths   == {-1, 0, 319, 320, 1280, 7680, 7681}
CustomHeights  == {-1, 0, 239, 240, 720, 4320, 4321}

\* the settings were loaded from a document with any such output1
InitResolution ==
  /\ settings \in
          {[_getDefaults EXCEPT !["output1"] =
              [@ EXCEPT !.enabled = e, !.resolution = x,
                        !.customWidth = w, !.customHeight = h]] :
             e \in BOOLEAN, x \in AnyResolutions,
             w \in CustomWidths, h \in CustomHeights}
  /\ browser = FALSE
  /\ pages = [k \in Keys |-> NoPage]
  /\ openPgs = {}
  /\ outputs = [k \in Keys |-> 0]
  /\ order = << >>
  /\ config = [n \in Ids |-> NoConfig]
  /\ ndi = [n \in Ids |-> NoNdi]
  /\ cap = [n \in Ids |-> NoCapture]
  /\ runs = [r \in RunIds |-> IdleRun]
  /\ last = NoLast
  /\ active = 0
  /\ changes = 0
  /\ failures = 0
  /\ oc = NoCapture
  /\ loops = [l \in LoopIds |-> NoLoop]
  /\ now = 0
  /\ shots = 0
  /\ published = << >>
  /\ starts = 0
  /\ NoSender
  /\ NoHost

\* syncOutputs() calls getEnabledOutputs() on them
SpecResolution == InitResolution /\ [][launch]_vars

\* ---------------------------------------------------------------- shutdown()
\* the process has exited: nothing of it runs any more
Exited == -1

\* main() resumes after 'await syncOutputs()': process.on('SIGINT', shutdown)
main_resumed ==
  /\ Free /\ last.valid /\ InFlight = {}
  /\ down.pc = "idle"
  /\ down' = [down EXCEPT !.pc = "armed"]
  /\ UNCHANGED <<mainVars, oc, loops, now, shots, published, starts, txVars, file>>

\* a signal arrives: shutdown() up to its loop over Object.keys(outputs)
shutdown ==
  /\ Free
  /\ down.pc \in {"armed", "running"}
  /\ down.calls < MaxSignals
  /\ IF down.isShuttingDown
     THEN /\ down' = [down EXCEPT !.calls = @ + 1]
          /\ UNCHANGED <<runs, active>>
     ELSE /\ FreeRuns # {}
          /\ down' = [isShuttingDown |-> TRUE, pc |-> "running", run |-> FreeRun,
                      calls |-> down.calls + 1]
          /\ runs' = [runs EXCEPT ![FreeRun] =
                        [IdleRun EXCEPT !.pc = "sd_loop", !.keys = order, !.i = 1]]
          /\ active' = FreeRun
  /\ UNCHANGED <<settings, browser, pages, openPgs, outputs, order, config, ndi,
                 cap, last, changes, failures>>
  /\ UNCHANGED <<oc, loops, now, shots, published, starts, txVars, file>>

\* for (const key of Object.keys(outputs)) await destroyOutput(key); then
\* browserManager.destroy() takes [...this.pages.keys()]
shutdown_outputs(r) ==
  /\ Running(r, "sd_loop")
  /\ LET run == runs[r] IN
       IF run.i > Len(run.keys)
       THEN runs' = [runs EXCEPT ![r].pc = "bd_loop", ![r].i = 1,
                       ![r].keys = SelectSeq(KeyOrder, LAMBDA k : pages[k].pid # 0)]
       ELSE runs' = [runs EXCEPT ![r].pc = "destroyOutput",
                                 ![r].key = run.keys[run.i],
                                 ![r].ret = <<"sd_loop">>,
                                 ![r].i = @ + 1]
  /\ UNCHANGED <<settings, browser, pages, openPgs, outputs, order, config, ndi,
                 cap, last, active, changes, failures>>
  /\ UNCHANGED unitVars

\* BrowserManager.destroy(): for (const outputKey of keys) await
\* this.destroyOutputPage(outputKey); then await this.browser.close()
destroy_pages(r) ==
  /\ Running(r, "bd_loop")
  /\ LET run == runs[r] IN
       IF run.i > Len(run.keys)
       THEN /\ runs' = [runs EXCEPT ![r].pc = "y_bclose"]
            /\ active' = 0
       ELSE /\ runs' = [runs EXCEPT ![r].pc = "destroyOutputPage",
                                    ![r].key = run.keys[run.i],
                                    ![r].ret = <<"bd_loop">>,
                                    ![r].i = @ + 1]
            /\ active' = r
  /\ UNCHANGED <<settings, browser, pages, openPgs, outputs, order, config, ndi,
                 cap, last, changes, failures>>
  /\ UNCHANGED unitVars

\* browser.close() settles: every page of the browser is closed; shutdown()
\* resumes, settings.destroy(), process.exit(0)
destroy_closed(r) ==
  /\ Suspended(r, "y_bclose")
  /\ browser' = FALSE
  /\ openPgs' = {}
  /\ runs' = [runs EXCEPT ![r].pc = "exited"]
  /\ down' = [down EXCEPT !.pc = "exited"]
  /\ active' = Exited
  /\ UNCHANGED <<settings, pages, outputs, order, config, ndi, cap, last, changes,
                 failures>>
  /\ UNCHANGED <<oc, loops, now, shots, published, starts, txVars, file>>

NextShutdown ==
  \/ launch
  \/ changed
  \/ Run
  \/ main_resumed
  \/ shutdown
  \/ \E r \in RunIds : shutdown_outputs(r) \/ destroy_pages(r) \/ destroy_closed(r)
  \/ \E n \in Ids : collect(n)

\* the pipelines under one change of the settings and termination signals
SpecShutdown == Init /\ [][NextShutdown]_vars

\* ---------------------------------------------------------------- the settings file
\* main() has called settings.load() on whatever is at settingsPath
InitFile ==
  /\ file \in Files
  /\ settings = load(file)
  /\ browser = FALSE
  /\ pages = [k \in Keys |-> NoPage]
  /\ openPgs = {}
  /\ outputs = [k \in Keys |-> 0]
  /\ order = << >>
  /\ config = [n \in Ids |-> NoConfig]
  /\ ndi = [n \in Ids |-> NoNdi]
  /\ cap = [n \in Ids |-> NoCapture]
  /\ runs = [r \in RunIds |-> IdleRun]
  /\ last = NoLast
  /\ active = 0
  /\ changes = 0
  /\ failures = 0
  /\ oc = NoCapture
  /\ loops = [l \in LoopIds |-> NoLoop]
  /\ now = 0
  /\ shots = 0
  /\ published = << >>
  /\ starts = 0
  /\ NoSender
  /\ down = NoShutdown

\* the watcher's 'change' handler: this.load(), emit('changed'), syncOutputs()
fileChanged(f) ==
  /\ Free /\ FreeRuns # {}
  /\ changes < MaxChanges
  /\ file' = f
  /\ settings' = load(f)
  /\ changes' = changes + 1
  /\ runs' = syncOutputs_begin(FreeRun, settings')
  /\ active' = FreeRun
  /\ UNCHANGED <<browser, pages, openPgs, outputs, order, config, ndi, cap,
                 last, failures>>
  /\ UNCHANGED <<oc, loops, now, shots, published, starts, txVars, down>>

NextFile ==
  \/ launch
  \/ \E f \in Files : fileChanged(f)
  \/ Run
  \/ \E n \in Ids : collect(n)

\* the pipelines under whatever the settings file turns into
SpecFile == InitFile /\ [][NextFile]_vars

\* the settings file is saved only once the startup call of syncOutputs has
\* returned, and no frame arrives: the reconciliation alone, under later edits
NextEdits ==
  \/ launch
  \/ changedLater
  \/ Run
  \/ \E n \in Ids : collect(n)

SpecEdits == Init /\ [][NextEdits]_vars

\* ---------------------------------------------------------------- a capture on its own
\* no pipeline exists and none is made
NoPipelines ==
  /\ settings = [k \in Keys |-> _getDefaultOutput(k)]
  /\ browser = FALSE
  /\ pages = [k \in Keys |-> NoPage]
  /\ openPgs = {}
  /\ outputs = [k \in Keys |-> 0]
  /\ order = << >>
  /\ config = [n \in Ids |-> NoConfig]
  /\ ndi = [n \in Ids |-> NoNdi]
  /\ cap = [n \in Ids |-> NoCapture]
  /\ runs = [r \in RunIds |-> IdleRun]
  /\ last = NoLast
  /\ active = 0
  /\ changes = 0
  /\ failures = 0

\* an OutputCapture of the adaptive loop, as constructed
InitLoop ==
  /\ NoPipelines
  /\ oc \in {AdaptiveCapture([outputKey |-> "output1", width |-> 0, height |-> 0,
                               framerate |-> f]) : f \in Framerates}
  /\ loops = [l \in LoopIds |-> NoLoop]
  /\ now = 0
  /\ shots = 0
  /\ published = << >>
  /\ starts = 0
  /\ NoSender
  /\ NoHost

UnusedLoops == {l \in LoopIds : loops[l].pc = "none"}
NewLoop == CHOOSE l \in UnusedLoops : \A m \in UnusedLoops : l <= m

\* the frame a decoded screenshot becomes
FrameOf(loop) ==
  [data |-> loop.shot, width |-> oc.width, height |-> oc.height,
   timestamp |-> loop.frameStart]

\* the clock has reached the last time it shows: that state is every later time
AtHorizon == \A d \in Durations : now + d > MaxNow

\* the timer of the pacing sleep has run out
Due(loop) == now >= loop.wakeAt \/ AtHorizon

\* startPolling(browserManager); _captureLoop runs up to its first await
startPolling ==
  /\ oc' = startPolling_begin(oc)
  /\ starts' = starts + 1
  /\ IF oc._running
     THEN UNCHANGED <<loops, shots>>
     ELSE /\ UnusedLoops # {} /\ shots < MaxShots
          /\ loops' = [loops EXCEPT ![NewLoop] =
                         _captureLoop_while(oc',
                           [NoLoop EXCEPT !.targetInterval = targetIntervalOf(oc.framerate)],
                           now, shots + 1)]
          /\ shots' = shots + 1
  /\ UNCHANGED <<now, published, mainVars, hostVars, txVars>>

\* the one call of startPolling a pipeline makes for its capture
started ==
  /\ starts = 0
  /\ startPolling

\* a faulty loop: a capture without a PNG ends the loop
captureFrame_settled_fatal(l, png) ==
  /\ loops[l].pc = "y_capture"
  /\ loops' = [loops EXCEPT ![l] =
                 IF png THEN [@ EXCEPT !.pc = "y_decode"]
                 ELSE [@ EXCEPT !.pc = "ended", !.result = "null"]]
  /\ UNCHANGED <<oc, now, shots, published, starts, mainVars, hostVars, txVars>>

\* await this._browserManager.captureFrame(...) resolves, with a PNG or null
captureFrame_settled(l, png) ==
  /\ loops[l].pc = "y_capture"
  /\ loops' = [loops EXCEPT ![l] =
                 IF png THEN [@ EXCEPT !.pc = "y_decode"]
                 ELSE _captureLoop_pace([@ EXCEPT !.result = "null"], now)]
  /\ UNCHANGED <<oc, now, shots, published, starts, mainVars, hostVars, txVars>>

\* a faulty loop: a decode that failed is counted as a frame
decodePng_settled_counts(l, ok) ==
  /\ loops[l].pc = "y_decode"
  /\ IF ok
     THEN /\ oc' = publish(oc, FrameOf(loops[l]), now)
          /\ published' = Append(published, FrameOf(loops[l]))
     ELSE /\ oc' = [oc EXCEPT !._frameCount = @ + 1, !._lastFrameTime = now]
          /\ UNCHANGED published
  /\ loops' = [loops EXCEPT ![l] =
                 _captureLoop_pace(
                   [@ EXCEPT !.result = IF ok THEN "frame" ELSE "undecodable"], now)]
  /\ UNCHANGED <<now, shots, starts, mainVars, hostVars, txVars>>

\* await decodePng(pngBuffer) settles; the frame is stored; the loop sleeps
decodePng_settled(l, ok) ==
  /\ loops[l].pc = "y_decode"
  /\ IF ok
     THEN /\ oc' = publish(oc, FrameOf(loops[l]), now)
          /\ published' = Append(published, FrameOf(loops[l]))
     ELSE UNCHANGED <<oc, published>>
  /\ loops' = [loops EXCEPT ![l] =
                 _captureLoop_pace(
                   [@ EXCEPT !.result = IF ok THEN "frame" ELSE "undecodable"], now)]
  /\ UNCHANGED <<now, shots, starts, mainVars, hostVars, txVars>>

\* the pacing sleep ends and the loop tests this._running
woke(l) ==
  /\ loops[l].pc = "y_sleep" /\ Due(loops[l])
  /\ oc._running => shots < MaxShots
  /\ loops' = [loops EXCEPT ![l] = _captureLoop_while(oc, @, now, shots + 1)]
  /\ shots' = IF oc._running THEN shots + 1 ELSE shots
  /\ UNCHANGED <<oc, now, published, starts, mainVars, hostVars, txVars>>

\* capture.setFramerate(fps)
setFramerate(fps) ==
  /\ oc' = AdaptiveSetFramerate(oc, fps)
  /\ UNCHANGED <<loops, now, shots, published, starts, mainVars, hostVars, txVars>>

\* capture.stop()
stop ==
  /\ oc' = AdaptiveStop(oc)
  /\ published' = << >>
  /\ UNCHANGED <<loops, now, shots, starts, mainVars, hostVars, txVars>>

\* time passes
advance(d) ==
  /\ now + d <= MaxNow
  /\ now' = now + d
  /\ UNCHANGED <<oc, loops, shots, published, starts, mainVars, hostVars, txVars>>

NextLoop ==
  \/ started
  \/ stop
  \/ \E fps \in Framerates : setFramerate(fps)
  \/ \E d \in Durations : advance(d)
  \/ \E l \in LoopIds :
       \/ woke(l)
       \/ \E ok \in BOOLEAN :
            \/ captureFrame_settled(l, ok)
            \/ decodePng_settled(l, ok)

\* one capture, started once: what a pipeline does with its capture
SpecLoop == InitLoop /\ [][NextLoop]_vars

\* every await settles, every timer fires, time passes
FairLoop ==
  /\ SpecLoop
  /\ WF_vars(\E d \in Durations : advance(d))
  /\ \A l \in LoopIds :
       /\ WF_vars(woke(l))
       /\ WF_vars(\E ok \in BOOLEAN : captureFrame_settled(l, ok))
       /\ WF_vars(\E ok \in BOOLEAN : decodePng_settled(l, ok))

\* ---------------------------------------------------------------- a capture that is restarted
\* startPolling(browserManager), called again at any time
restarted ==
  /\ starts < MaxStarts
  /\ startPolling

NextRestart ==
  \/ restarted
  \/ stop
  \/ \E d \in Durations : advance(d)
  \/ \E l \in LoopIds :
       \/ woke(l)
       \/ \E ok \in BOOLEAN :
            \/ captureFrame_settled(l, ok)
            \/ decodePng_settled(l, ok)

\* one capture under any sequence of startPolling() and stop()
SpecRestart == InitLoop /\ [][NextRestart]_vars

\* ---------------------------------------------------------------- the pacing of a cycle
\* the framerates a capture is paced for: those of the settings, one with a
\* whole target interval and two with a target interval of 1 ms and less
PacedRates == Framerates \cup {25, 1000, 2000}

\* the values of Date.now() at the start of the cycle; the clock of Date.now()
\* can be set back, so the start can lie after the end
FrameStarts == {0, 20}

\* a loop in a cycle that began at frameStart, at any later or earlier time
InitPacing ==
  /\ NoPipelines
  /\ \E f \in PacedRates, t \in FrameStarts :
       /\ oc = startPolling_begin(
                 AdaptiveCapture([outputKey |-> "output1", width |-> 0,
                                  height |-> 0, framerate |-> f]))
       /\ loops = [l \in LoopIds |->
                     IF l = 1
                     THEN _captureLoop_while(oc,
                            [NoLoop EXCEPT !.targetInterval = targetIntervalOf(f)],
                            t, 1)
                     ELSE NoLoop]
  /\ now \in 0..MaxNow
  /\ shots = 1
  /\ published = << >>
  /\ starts = 1
  /\ NoSender
  /\ NoHost

\* the cycle runs to its pacing sleep
NextPacing ==
  \E l \in LoopIds : \E ok \in BOOLEAN :
    \/ captureFrame_settled(l, ok)
    \/ decodePng_settled(l, ok)

SpecPacing == InitPacing /\ [][NextPacing]_vars

\* ---------------------------------------------------------------- the polling fallback on its own
\* an OutputCapture with the screencast and the polling fallback, as constructed
InitPoll ==
  /\ NoPipelines
  /\ oc \in {OutputCapture("output1", [NoConfig EXCEPT !.framerate = f]) :
               f \in Framerates}
  /\ loops = [l \in LoopIds |-> NoLoop]
  /\ now = 0
  /\ shots = 0
  /\ published = << >>
  /\ starts = 0
  /\ NoSender
  /\ NoHost

\* startScreencast has set _running and awaits the subscription
Subscribing == oc._running /\ ~oc.castOn /\ oc._pollInterval = 0

\* capture.startScreencast(browserManager), up to its await
subscribe ==
  /\ starts = 0
  /\ starts' = starts + 1
  /\ oc' = startScreencast_begin(oc)
  /\ UNCHANGED <<loops, now, shots, published, mainVars, hostVars, txVars>>

\* browserManager.startScreencast rejects: _startPolling sets the timer
fallback ==
  /\ Subscribing
  /\ oc' = startScreencast_end(oc, FALSE)
  /\ UNCHANGED <<loops, now, shots, published, starts, mainVars, hostVars, txVars>>

\* the timer callback: if (!this._running) return; captureFrame(...) is awaited
tick ==
  /\ oc.pollOn
  /\ IF oc._running
     THEN /\ UnusedLoops # {} /\ shots < MaxShots
          /\ loops' = [loops EXCEPT ![NewLoop] =
                         [NoLoop EXCEPT !.pc = "y_capture", !.shot = shots + 1]]
          /\ shots' = shots + 1
     ELSE UNCHANGED <<loops, shots>>
  /\ UNCHANGED <<oc, now, published, starts, mainVars, hostVars, txVars>>

\* captureFrame resolves; a PNG that passes the rate limit goes to decodePng
tickCaptured(l, png) ==
  /\ loops[l].pc = "y_capture"
  /\ loops' = [loops EXCEPT ![l] = IF png THEN [@ EXCEPT !.pc = "y_decode"]
                                   ELSE NoLoop]
  /\ UNCHANGED <<oc, now, shots, published, starts, mainVars, hostVars, txVars>>

\* decodePng settles inside _processFrame and the callback is over
tickDecoded(l, ok) ==
  /\ loops[l].pc = "y_decode"
  /\ loops' = [loops EXCEPT ![l] = NoLoop]
  /\ oc' = IF ok THEN _processFrame(oc) ELSE oc
  /\ UNCHANGED <<now, shots, published, starts, mainVars, hostVars, txVars>>

\* capture.stop() of a capture that polls: nothing is awaited
stopPolling ==
  /\ oc._running /\ ~oc._stopScreencast
  /\ oc' = stop_end(stop_begin(oc))
  /\ UNCHANGED <<loops, now, shots, published, starts, mainVars, hostVars, txVars>>

NextPoll ==
  \/ subscribe
  \/ fallback
  \/ tick
  \/ stopPolling
  \/ \E l \in LoopIds : \E ok \in BOOLEAN :
       \/ tickCaptured(l, ok)
       \/ tickDecoded(l, ok)

\* one capture whose screencast subscription failed
SpecPoll == InitPoll /\ [][NextPoll]_vars

\* ---------------------------------------------------------------- the screencast on its own
\* this._lastFrameTime: the time of the frame stored last, 0 before the first
LastFrameTime == IF published = << >> THEN 0 ELSE published[Len(published)].timestamp

\* if (now - this._lastFrameTime < this._minFrameInterval * 0.8) return;
\* Date.now() is far from 0, so nothing is too soon before the first frame
TooSoon(t) == published # << >> /\ (t - LastFrameTime) * oc.framerate < 800

\* browserManager.startScreencast resolves with the stop function
subscribed ==
  /\ Subscribing
  /\ oc' = startScreencast_end(oc, TRUE)
  /\ UNCHANGED <<loops, now, shots, published, starts, mainVars, hostVars, txVars>>

\* the renderer pushes a frame: the 'Page.screencastFrame' handler sends
\* Page.screencastFrameAck and awaits it
pushed ==
  /\ oc.castOn
  /\ UnusedLoops # {} /\ shots < MaxShots
  /\ loops' = [loops EXCEPT ![NewLoop] =
                 [NoLoop EXCEPT !.pc = "y_ack", !.shot = shots + 1]]
  /\ shots' = shots + 1
  /\ UNCHANGED <<oc, now, published, starts, mainVars, hostVars, txVars>>

\* a faulty handler: the frame goes to onFrame whatever became of the ack
ackSettled_deliversAll(l, ok) ==
  /\ loops[l].pc = "y_ack"
  /\ loops' = [loops EXCEPT ![l] =
                 IF TooSoon(now)
                 THEN [@ EXCEPT !.pc = "ended", !.acked = ok, !.result = "skipped"]
                 ELSE [@ EXCEPT !.pc = "y_decode", !.acked = ok, !.frameStart = now]]
  /\ UNCHANGED <<oc, now, shots, published, starts, mainVars, hostVars, txVars>>

\* the ack settles: a rejection goes to the catch of the handler; otherwise
\* onFrame(imageBuffer) runs _processFrame up to its await decodePng
ackSettled(l, ok) ==
  /\ loops[l].pc = "y_ack"
  /\ loops' = [loops EXCEPT ![l] =
                 IF ~ok
                 THEN [@ EXCEPT !.pc = "ended", !.result = "unacked"]
                 ELSE IF TooSoon(now)
                 THEN [@ EXCEPT !.pc = "ended", !.acked = TRUE, !.result = "skipped"]
                 ELSE [@ EXCEPT !.pc = "y_decode", !.acked = TRUE, !.frameStart = now]]
  /\ UNCHANGED <<oc, now, shots, published, starts, mainVars, hostVars, txVars>>

\* decodePng settles inside _processFrame: the frame is stored with the time
\* read when _processFrame began
castDecoded(l, ok) ==
  /\ loops[l].pc = "y_decode"
  /\ loops' = [loops EXCEPT ![l] =
                 [@ EXCEPT !.pc = "ended",
                           !.result = IF ok THEN "frame" ELSE "undecodable"]]
  /\ oc' = IF ok THEN _processFrame(oc) ELSE oc
  /\ published' = IF ok THEN Append(published, [data |-> loops[l].shot,
                                                timestamp |-> loops[l].frameStart])
                  ELSE published
  /\ UNCHANGED <<now, shots, starts, mainVars, hostVars, txVars>>

NextCast ==
  \/ subscribe
  \/ subscribed
  \/ pushed
  \/ \E d \in Durations : advance(d)
  \/ \E l \in LoopIds : \E ok \in BOOLEAN :
       \/ ackSettled(l, ok)
       \/ castDecoded(l, ok)

\* one capture whose screencast subscription succeeded
SpecCast == InitPoll /\ [][NextCast]_vars

\* ---------------------------------------------------------------- a sender and its capture
\* _sendFrame has a sender, a getFrameFn and a frame with data to send
Sendable(s, frame) == s.sender /\ s.getFrameFn # 0 /\ frame # NullFrame /\ frame.data # 0

\* a faulty _sendFrame: a call of sender.video() that threw is counted
_sendFrame_end_countsAll(s, thrown) == [s EXCEPT !.frameCount = @ + 1]

\* a faulty _sendFrame: the catch block stops the send timer
_sendFrame_end_stopsOnThrow(s, thrown) ==
  IF thrown THEN stopSending(s) ELSE [s EXCEPT !.frameCount = @ + 1]

\* the end of the try block of _sendFrame: this.frameCount++ unless it threw
_sendFrame_end(s, thrown) ==
  IF thrown THEN s ELSE [s EXCEPT !.frameCount = @ + 1]

\* the sender of a pipeline after its 'await initialize()', and its capture
InitSend ==
  /\ NoPipelines
  /\ oc = AdaptiveCapture([outputKey |-> "output1", width |-> 0, height |-> 0,
                           framerate |-> 30])
  /\ loops = [l \in LoopIds |-> NoLoop]
  /\ now = 0
  /\ shots = 0
  /\ published = << >>
  /\ starts = 0
  /\ tx = initialize(NdiSender(OutputConfig("output1", _getDefaultOutput("output1"))), TRUE)
  /\ sent = << >>
  /\ sends = NoSends
  /\ inits = NoCalls
  /\ NoHost

\* ndiSender.startSending(() => capture.getLatestFrame())
sending ==
  /\ starts > 0 /\ ~tx.isRunning /\ ~tx.destroyed
  /\ tx' = startSending(tx, 1)
  /\ UNCHANGED <<oc, loops, now, shots, published, starts, sent, sends, inits,
                 mainVars, hostVars>>

\* a capture request or a decode of the capture loop is in flight
Capturing == \E l \in LoopIds : loops[l].pc \in {"y_capture", "y_decode"}

\* a faulty sender: the send timer waits for the capture cycle to end
sendTick_awaitsCapture(thrown) ==
  /\ tx.frameInterval # 0
  /\ ~Capturing
  /\ IF Sendable(tx, AdaptiveGetLatestFrame(oc))
     THEN /\ Len(sent) + sends.thrown < MaxSends
          /\ thrown => sends.thrown + sends.rejected < MaxFail
          /\ tx' = _sendFrame_end(tx, thrown)
          /\ sent' = IF thrown THEN sent ELSE Append(sent, AdaptiveGetLatestFrame(oc))
          /\ sends' = IF thrown THEN [sends EXCEPT !.thrown = @ + 1,
                                                   !.failedAt = Len(sent) + 1]
                      ELSE [sends EXCEPT !.pending = @ + 1]
     ELSE /\ ~thrown
          /\ UNCHANGED txVars
  /\ UNCHANGED <<oc, loops, now, shots, published, starts, inits, mainVars, hostVars>>

\* the send timer fires: _sendFrame()
sendTick(thrown) ==
  /\ tx.frameInterval # 0
  /\ IF Sendable(tx, AdaptiveGetLatestFrame(oc))
     THEN /\ Len(sent) + sends.thrown < MaxSends
          /\ thrown => sends.thrown + sends.rejected < MaxFail
          /\ tx' = _sendFrame_end(tx, thrown)
          /\ sent' = IF thrown THEN sent ELSE Append(sent, AdaptiveGetLatestFrame(oc))
          /\ sends' = IF thrown THEN [sends EXCEPT !.thrown = @ + 1,
                                                   !.failedAt = Len(sent) + 1]
                      ELSE [sends EXCEPT !.pending = @ + 1,
                                         !.during = @ \/ Capturing]
     ELSE /\ ~thrown
          /\ UNCHANGED txVars
  /\ UNCHANGED <<oc, loops, now, shots, published, starts, inits, mainVars, hostVars>>

\* the promise of a sender.video() call settles; a rejection is only logged
videoSettled(ok) ==
  /\ sends.pending > 0
  /\ ok \/ sends.thrown + sends.rejected < MaxFail
  /\ sends' = [sends EXCEPT !.pending = @ - 1,
                            !.rejected = IF ok THEN @ ELSE @ + 1,
                            !.failedAt = IF ok THEN @ ELSE Len(sent) + 1]
  /\ UNCHANGED <<oc, loops, now, shots, published, starts, tx, sent, inits,
                 mainVars, hostVars>>

\* ndiSender.destroy()
senderDestroyed ==
  /\ ~tx.destroyed
  /\ tx' = NdiDestroy(tx)
  /\ UNCHANGED <<oc, loops, now, shots, published, starts, sent, sends, inits,
                 mainVars, hostVars>>

NextSend ==
  \/ started
  \/ stop
  \/ sending
  \/ senderDestroyed
  \/ \E d \in Durations : advance(d)
  \/ \E l \in LoopIds : woke(l)
  \/ \E ok \in BOOLEAN :
       \/ sendTick(ok)
       \/ videoSettled(ok)
       \/ \E l \in LoopIds : captureFrame_settled(l, ok) \/ decodePng_settled(l, ok)

\* the two loops of one pipeline
SpecSend == InitSend /\ [][NextSend]_vars

\* ---------------------------------------------------------------- the sender on its own
\* new NdiSender(config): constructed, initialize() not called yet
InitSender ==
  /\ NoPipelines
  /\ oc = NoCapture
  /\ loops = [l \in LoopIds |-> NoLoop]
  /\ now = 0
  /\ shots = 0
  /\ published = << >>
  /\ starts = 0
  /\ tx = NdiSender(OutputConfig("output1", _getDefaultOutput("output1")))
  /\ sent = << >>
  /\ sends = NoSends
  /\ inits = NoCalls
  /\ NoHost

\* initialize(), up to its await grandi.send(...)
initializing(c) ==
  /\ inits[c].pc = "idle"
  /\ inits' = [inits EXCEPT ![c].pc = "y_init", ![c].late = @ \/ tx.destroyed]
  /\ UNCHANGED <<oc, loops, now, shots, published, starts, tx, sent, sends,
                 mainVars, hostVars>>

\* grandi.send(...) settles: this.sender = the handle, or the catch block
initialized(c, ok) ==
  /\ inits[c].pc = "y_init"
  /\ ok => tx.opened < MaxOpens
  /\ tx' = initialize(tx, ok)
  /\ inits' = [inits EXCEPT ![c] = [NoCall EXCEPT !.late = inits[c].late]]
  /\ UNCHANGED <<oc, loops, now, shots, published, starts, sent, sends,
                 mainVars, hostVars>>

\* startSending(getFrame)
startSending_called ==
  /\ tx' = startSending(tx, 1)
  /\ UNCHANGED <<oc, loops, now, shots, published, starts, sent, sends, inits,
                 mainVars, hostVars>>

\* stopSending()
stopSending_called ==
  /\ tx' = stopSending(tx)
  /\ UNCHANGED <<oc, loops, now, shots, published, starts, sent, sends, inits,
                 mainVars, hostVars>>

\* setFramerate(fps)
setFramerate_called(fps) ==
  /\ tx' = NdiSetFramerate(tx, fps)
  /\ UNCHANGED <<oc, loops, now, shots, published, starts, sent, sends, inits,
                 mainVars, hostVars>>

\* setSourceName(name), up to its await this.initialize()
setSourceName_called(c, name) ==
  /\ inits[c].pc = "idle"
  /\ name # tx.sourceName
  /\ tx' = setSourceName_begin(tx, name)
  /\ inits' = [inits EXCEPT ![c] = [pc |-> "y_rename", wasRunning |-> tx.isRunning,
                                     getFrame |-> tx.getFrameFn,
                                     late |-> inits[c].late \/ tx.destroyed]]
  /\ UNCHANGED <<oc, loops, now, shots, published, starts, sent, sends,
                 mainVars, hostVars>>

\* the initialize() of a setSourceName settles; startSending if it was running
setSourceName_resumed(c, ok) ==
  /\ inits[c].pc = "y_rename"
  /\ ok => tx.opened < MaxOpens
  /\ tx' = setSourceName_end(tx, ok, inits[c].wasRunning, inits[c].getFrame)
  /\ inits' = [inits EXCEPT ![c] = [NoCall EXCEPT !.late = inits[c].late]]
  /\ UNCHANGED <<oc, loops, now, shots, published, starts, sent, sends,
                 mainVars, hostVars>>

\* destroy()
destroy_called ==
  /\ tx' = NdiDestroy(tx)
  /\ UNCHANGED <<oc, loops, now, shots, published, starts, sent, sends, inits,
                 mainVars, hostVars>>

NextSender ==
  \/ startSending_called
  \/ stopSending_called
  \/ destroy_called
  \/ \E fps \in Framerates : setFramerate_called(fps)
  \/ \E c \in CallIds :
       \/ initializing(c)
       \/ \E ok \in BOOLEAN : initialized(c, ok) \/ setSourceName_resumed(c, ok)
       \/ \E name \in SourceNames : setSourceName_called(c, name)

\* any sequence of calls on one NdiSender
SpecSender == InitSender /\ [][NextSender]_vars

\* ---------------------------------------------------------------- claims
ZeroOps == [create |-> 0, destroy |-> 0, setFramerate |-> 0, setSourceName |-> 0]

\* the active map holds exactly the enabled outputs of snap, with its values
MapMatches(snap) ==
  /\ enabledKeys(snap) = {q \in Keys : outputs[q] # 0}
  /\ \A n \in 1..Len(snap) :
       \A f \in Tracked : config[outputs[snap[n].key]][f] = snap[n][f]

C2_OneRunInFlight == Cardinality(InFlight) <= 1

\* C3: when a call of syncOutputs in which no allocation failed is about to
\* return, the keys of the active map are the enabled keys of its snapshot and
\* each stored config has the snapshot's width, height, framerate, sourceName.
C3_MapMatchesSnapshot ==
  \A r \in RunIds :
    runs[r].pc = "return" /\ ~runs[r].failed => MapMatches(runs[r].snap)

\* the same for the calls that ran with no other call in flight
C3_Sequential ==
  \A r \in RunIds :
    runs[r].pc = "return" /\ ~runs[r].failed /\ ~runs[r].overlapped
      => MapMatches(runs[r].snap)

\* C4: a call of syncOutputs whose snapshot differs from what the active map
\* holds only in the framerate of one output calls setFramerate once, on that
\* output, calls no createOutput, destroyOutput or setSourceName, keeps every
\* map entry, and changes no sender, capture, config or page of another
\* pipeline.
C4_FramerateOnly ==
  /\ [](\A r \in RunIds :
          runs[r].fpsOnly # "" =>
            LET k == runs[r].fpsOnly
                o == outputs[k]
            IN  /\ \A q \in Keys \ {k} : runs[r].ops[q] = ZeroOps
                /\ runs[r].ops[k].create = 0 /\ runs[r].ops[k].destroy = 0
                /\ runs[r].ops[k].setSourceName = 0
                /\ outputs = runs[r].startOut
                /\ runs[r].pc = "return" =>
                      /\ runs[r].ops[k].setFramerate = 1
                      /\ ndi[o].framerate = ConfigOf(runs[r].snap, k).framerate
                      /\ cap[o].framerate = ConfigOf(runs[r].snap, k).framerate
                      /\ config[o].framerate = ConfigOf(runs[r].snap, k).framerate)
  /\ [][\A r \in RunIds :
          active = r /\ runs[r].fpsOnly # "" =>
            /\ \A n \in Ids \ {outputs[runs[r].fpsOnly]} :
                 ndi'[n] = ndi[n] /\ cap'[n] = cap[n] /\ config'[n] = config[n]
            /\ pages' = pages /\ openPgs' = openPgs]_vars

C4_Witness ==
  \E r \in RunIds :
    /\ runs[r].fpsOnly # "" /\ runs[r].pc = "return" /\ Len(runs[r].snap) = 2
    /\ ndi[outputs[runs[r].fpsOnly]].isRunning

\* C5: a call of syncOutputs whose snapshot differs from what the active map
\* holds only in the width or height of one output calls destroyOutput and
\* then createOutput once for that output, and calls no createOutput,
\* destroyOutput, setFramerate or setSourceName for another output.
C5_RecreatesOnlyThat ==
  \A r \in RunIds :
    runs[r].sizeOnly # "" /\ runs[r].pc = "return" =>
      LET k == runs[r].sizeOnly
      IN  /\ runs[r].ops[k] = [ZeroOps EXCEPT !.create = 1, !.destroy = 1]
          /\ \A q \in Keys \ {k} : runs[r].ops[q] = ZeroOps

\* the same for the calls that ran with no other call in flight
C5_Sequential ==
  \A r \in RunIds :
    runs[r].sizeOnly # "" /\ runs[r].pc = "return" /\ ~runs[r].overlapped =>
      LET k == runs[r].sizeOnly
      IN  /\ runs[r].ops[k] = [ZeroOps EXCEPT !.create = 1, !.destroy = 1]
          /\ \A q \in Keys \ {k} : runs[r].ops[q] = ZeroOps

\* C6: when a call of syncOutputs is about to return, every output that was
\* in the active map when the call started and is not enabled in its
\* snapshot had destroyOutput called for it and is absent from the map.
C6_DisabledIsGone ==
  \A r \in RunIds :
    runs[r].pc = "return" =>
      \A k \in Keys :
        runs[r].startOut[k] # 0 /\ k \notin enabledKeys(runs[r].snap) =>
          runs[r].ops[k].destroy >= 1 /\ outputs[k] = 0

\* the same for the calls that ran with no other call in flight
C6_Sequential ==
  \A r \in RunIds :
    runs[r].pc = "return" /\ ~runs[r].overlapped =>
      \A k \in Keys :
        runs[r].startOut[k] # 0 /\ k \notin enabledKeys(runs[r].snap) =>
          runs[r].ops[k].destroy >= 1 /\ outputs[k] = 0

C8_DestroyIdempotent ==
  /\ [](\A n \in Ids :
          ndi[n].made =>
            /\ NdiDestroy(NdiDestroy(ndi[n])) = NdiDestroy(ndi[n])
            /\ ndi[n].released <= ndi[n].opened)
  /\ [](\A n \in Ids :
          cap[n].made =>
            LET stopped == stop_end(stop_begin(cap[n]))
            IN  /\ ~stopped._stopScreencast
                /\ stop_end(stop_begin(stopped)) = stopped)
  /\ [][\A r \in RunIds :
          \/ Running(r, "destroyOutput") /\ outputs[runs[r].key] = 0
          \/ Running(r, "destroyOutputPage") /\ pages[runs[r].key].pid = 0
          => UNCHANGED <<outputs, order, config, ndi, cap, pages, openPgs>>]_vars

C8_Witness ==
  \E r \in RunIds :
    /\ runs[r].pc = "d_noout"
    /\ \E n \in Ids : ndi[n].destroyed /\ ndi[n].released = 1 /\ cap[n].made

\* C9: when createOutput is about to return null, the sender it constructed
\* holds no handle and the page it opened is closed.
C9_FailedCreateReleasesAll ==
  \A r \in RunIds :
    runs[r].pc = "c_ret" /\ runs[r].res = 0 =>
      ~ndi[runs[r].id].sender /\ runs[r].id \notin openPgs

\* the sender alone
C9_SenderReleased ==
  \A r \in RunIds :
    runs[r].pc = "c_ret" /\ runs[r].res = 0 => ~ndi[runs[r].id].sender

\* C10: a call of syncOutputs calls createOutput at most once for an output;
\* when createOutput returned null the call leaves the active map as it is
\* and goes on to the next output of the snapshot; the map never holds a
\* pipeline whose creation did not complete.
C10_NoRetryInRun ==
  /\ [](\A r \in RunIds : \A k \in Keys : runs[r].ops[k].create <= 1)
  /\ [](\A k \in Keys : outputs[k] # 0 =>
          config[outputs[k]] # NoConfig /\ cap[outputs[k]].made)
  /\ [][\A r \in RunIds :
          Running(r, "c_ret") /\ runs[r].res = 0 =>
            /\ outputs' = outputs
            /\ runs'[r].pc = "up_loop" /\ runs'[r].j = runs[r].j + 1]_vars

C10_Witness ==
  \E r \in RunIds :
    /\ runs[r].pc = "return" /\ runs[r].failed /\ ~runs[r].overlapped
    /\ \E k \in enabledKeys(runs[r].snap) :
         outputs[k] = 0 /\ runs[r].ops[k].create = 1

\* C11: a createOutput that returned null does not end the call of
\* syncOutputs.  The call returns only when both loops have run to their end;
\* destroyOutput was called once for every key the map held at the start that
\* the snapshot does not enable; the second loop takes the entries of the
\* snapshot one by one and leaves an entry only with the output in the map or
\* with a createOutput that returned null; a call that ran with no other call
\* in flight returns with every enabled output in the map with the values of
\* the snapshot, except those whose own createOutput returned null, and with
\* no output that is not enabled.
C11_FailureDoesNotStopRun ==
  /\ [](\A r \in RunIds :
          runs[r].pc = "return" =>
            /\ runs[r].i = Len(runs[r].keys) + 1
            /\ runs[r].j = Len(runs[r].snap) + 1
            /\ \A q \in SeqRange(runs[r].keys) \ enabledKeys(runs[r].snap) :
                 runs[r].ops[q].destroy = 1)
  /\ [][\A r \in RunIds :
          runs[r].pc \notin {"idle", "return", "rm_loop"} /\ runs'[r].j # runs[r].j =>
            /\ runs'[r].j = runs[r].j + 1
            /\ runs[r].j <= Len(runs[r].snap)
            /\ \/ outputs'[Cfg(r).key] # 0
               \/ runs[r].pc = "c_ret" /\ runs[r].res = 0 /\ runs[r].failed]_vars
  /\ [](\A r \in RunIds :
          runs[r].pc = "return" /\ ~runs[r].overlapped =>
            \A q \in Keys :
              IF q \in enabledKeys(runs[r].snap)
              THEN \/ /\ outputs[q] # 0
                      /\ \A f \in Tracked :
                           config[outputs[q]][f] = ConfigOf(runs[r].snap, q)[f]
                   \/ outputs[q] = 0 /\ runs[r].ops[q].create = 1 /\ runs[r].failed
              ELSE outputs[q] = 0)

\* the first output of the snapshot failed and the second was created after it
C11_Witness ==
  \E r \in RunIds :
    /\ runs[r].pc = "return" /\ runs[r].failed /\ ~runs[r].overlapped
    /\ Len(runs[r].snap) = 2
    /\ outputs[runs[r].snap[1].key] = 0
    /\ runs[r].ops[runs[r].snap[1].key].create = 1
    /\ outputs[runs[r].snap[2].key] # 0
    /\ runs[r].ops[runs[r].snap[2].key].create = 1

\* C12: a cycle of the capture loop is paced with the target interval
\* 1000/fps of the framerate the capture has when the cycle begins, so every
\* cycle that begins after setFramerate(fps) sleeps max(1, 1000/fps - elapsed).
C12_CyclePacedByFramerate ==
  \A l \in LoopIds :
    loops[l].pc = "y_sleep" =>
      loops[l].sleepMs
        = sleepMs(targetIntervalOf(loops[l].framerate), loops[l].elapsed)

\* C13: when a call of syncOutputs that changed only the framerate of one
\* output is about to return, the capture of that output still has the
\* mechanism that feeds it, its screencast subscription or its poll timer,
\* and the sender still has its send timer.
C13_FramerateChangeKeepsCapturing ==
  \A r \in RunIds :
    runs[r].fpsOnly # "" /\ runs[r].pc = "return" =>
      LET o == outputs[runs[r].fpsOnly]
      IN  /\ cap[o]._running => cap[o].castOn \/ cap[o].pollOn
          /\ ndi[o].isRunning => ndi[o].frameInterval # 0

\* C14: the steps of setSourceName called from syncOutputs change no capture,
\* no map entry and no page and perform no createOutput or destroyOutput; a
\* call of syncOutputs whose snapshot differs from what the active map holds
\* only in the sourceName of one output performs one setSourceName on that
\* output and no createOutput, destroyOutput or setFramerate; when it ran
\* with no other call in flight it returns with the map as it was, the
\* capture running with its mechanism and its captured-frame count not
\* reset, and the sender and the stored config carrying the new name.
C14_RenameTouchesOnlySender ==
  /\ [][\A r \in RunIds :
          runs[r].pc \in {"u_name", "y_rename", "n_same"} /\ runs'[r].pc # runs[r].pc =>
            /\ cap' = cap /\ outputs' = outputs
            /\ pages' = pages /\ openPgs' = openPgs
            /\ \A q \in Keys : /\ runs'[r].ops[q].create = runs[r].ops[q].create
                               /\ runs'[r].ops[q].destroy = runs[r].ops[q].destroy]_vars
  /\ [](\A r \in RunIds :
          runs[r].nameOnly # "" =>
            LET k == runs[r].nameOnly
                o == outputs[k]
            IN  /\ \A q \in Keys : /\ runs[r].ops[q].create = 0
                                   /\ runs[r].ops[q].destroy = 0
                                   /\ runs[r].ops[q].setFramerate = 0
                /\ \A q \in Keys \ {k} : runs[r].ops[q] = ZeroOps
                /\ runs[r].pc = "return" => runs[r].ops[k].setSourceName = 1
                /\ runs[r].pc = "return" /\ ~runs[r].overlapped =>
                      /\ outputs = runs[r].startOut
                      /\ cap[o]._running /\ (cap[o].castOn \/ cap[o].pollOn)
                      /\ ndi[o].sourceName = ConfigOf(runs[r].snap, k).sourceName
                      /\ config[o].sourceName = ConfigOf(runs[r].snap, k).sourceName)

\* the sender was reopened under the new name while the capture held a frame
C14_Witness ==
  \E r \in RunIds :
    /\ runs[r].nameOnly # "" /\ runs[r].pc = "return"
    /\ ndi[outputs[runs[r].nameOnly]].opened = 2
    /\ ndi[outputs[runs[r].nameOnly]].isRunning
    /\ cap[outputs[runs[r].nameOnly]]._latestFrame # 0

\* C15: the frame buffer is one slot.  After N frames were stored since the
\* last stop(), getLatestFrame returns the Nth of them, with its data, width,
\* height and timestamp, and none of the N - 1 earlier ones; what the capture
\* holds is one frame, never a list of frames; the step that stores a frame
\* stores the decoded screenshot of the cycle that stores it.
C15_SingleSlot ==
  /\ [](published # << >> =>
          /\ AdaptiveGetLatestFrame(oc) = published[Len(published)]
          /\ \A n \in 1..(Len(published) - 1) :
               AdaptiveGetLatestFrame(oc) # published[n])
  /\ [](DOMAIN AdaptiveGetLatestFrame(oc) = {"data", "width", "height", "timestamp"})
  /\ [][\A l \in LoopIds :
          loops[l].pc = "y_decode" /\ oc'._frameCount = oc._frameCount + 1
          /\ loops'[l].pc # "y_decode" =>
            /\ AdaptiveGetLatestFrame(oc').data = loops[l].shot
            /\ AdaptiveGetLatestFrame(oc').width = oc.width
            /\ AdaptiveGetLatestFrame(oc').height = oc.height]_vars

\* three frames were stored, the third is the one returned
C15_Witness ==
  /\ Len(published) = 3
  /\ AdaptiveGetLatestFrame(oc).data = 3
  /\ published[1].data = 1

\* C16: getLatestFrame returns null while no capture has succeeded yet,
\* and in the state stop() leaves, whatever the capture held before.
C16_NullBeforeFirstAndAfterStop ==
  /\ [](oc._frameCount = 0 => AdaptiveGetLatestFrame(oc) = NullFrame)
  /\ [](AdaptiveGetLatestFrame(AdaptiveStop(oc)) = NullFrame)
  /\ [][oc._running /\ ~oc'._running =>
          AdaptiveGetLatestFrame(oc') = NullFrame]_vars

\* stop() has emptied a buffer that held a frame
C16_Witness ==
  /\ ~oc._running /\ oc._frameCount > 0
  /\ AdaptiveGetLatestFrame(oc) = NullFrame

\* C17: once stop() has been called the frame buffer stays empty and no
\* frame is stored any more, also when a capture or a decode was in flight:
\* a capture that is not running holds no frame and has stored none since
\* stop().
C17_NoPublishAfterStop ==
  ~oc._running => AdaptiveGetLatestFrame(oc) = NullFrame /\ published = << >>

\* C18: once stop() has been called on a capture that was started, no
\* captureFrame request is issued any more; a loop that is in its pacing
\* sleep then leaves the sleep only to end, without a further cycle; and
\* every activation of the loop has ended eventually.
C18_StopEndsLoop ==
  /\ [][starts > 0 /\ ~oc._running => shots' = shots]_vars
  /\ [][\A l \in LoopIds :
          loops[l].pc = "y_sleep" /\ ~oc._running /\ loops'[l].pc # "y_sleep" =>
            loops'[l].pc = "ended" /\ loops'[l].cycles = loops[l].cycles]_vars
  /\ (starts > 0 /\ ~oc._running)
       ~> (\A l \in LoopIds : loops[l].pc \in {"none", "ended"})

\* a loop has ended after two cycles
C18_Witness ==
  /\ ~oc._running
  /\ \E l \in LoopIds : loops[l].pc = "ended" /\ loops[l].cycles = 2

\* the captureFrame requests and decodes in flight for the capture
Requests == {l \in LoopIds : loops[l].pc \in {"y_capture", "y_decode"}}

\* C19: for one output at most one capture request, with its decode, is in
\* flight at any time.
C19_NoOverlappingRequests == Cardinality(Requests) <= 1

\* C20: the pacing sleep at the end of a cycle is max(1, targetInterval -
\* elapsed) ms.  With the target interval and the sleep as fractions over the
\* framerate: the sleep is 1 ms at least, it is exactly 1 ms when the cycle
\* took the target interval or longer, it is targetInterval - elapsed when
\* that is 1 ms or more, and the timer is set at least 1 ms ahead.
C20_PacingSleep ==
  \A l \in LoopIds :
    loops[l].pc = "y_sleep" =>
      LET target == loops[l].targetInterval
          sleep  == loops[l].sleepMs
          rest   == target.num - loops[l].elapsed * target.den
      IN  /\ sleep.den = target.den /\ sleep.den > 0
          /\ sleep.num >= sleep.den
          /\ loops[l].elapsed * target.den >= target.num => sleep.num = sleep.den
          /\ rest >= target.den => sleep.num = rest
          /\ loops[l].wakeAt >= loops[l].frameStart + loops[l].elapsed + 1

\* a cycle that took longer than the target interval sleeps 1 ms
C20_Witness ==
  \E l \in LoopIds :
    /\ loops[l].pc = "y_sleep"
    /\ loops[l].elapsed * loops[l].targetInterval.den > loops[l].targetInterval.num
    /\ loops[l].sleepMs.num = loops[l].sleepMs.den
    /\ loops[l].targetInterval.den = 30

\* C21: the capture loop ends only after stop().  A cycle whose capture gave
\* no PNG or whose PNG could not be decoded goes to the pacing sleep like any
\* other; a loop leaves the sleep for a further cycle when the capture is
\* running and ends only when it is not; and while capture requests remain
\* in the budget, a sleeping loop does begin that further cycle unless the
\* capture has been stopped.
C21_LoopSurvivesErrors ==
  /\ [](\A l \in LoopIds : loops[l].pc = "ended" => starts > 0 /\ ~oc._running)
  /\ [][\A l \in LoopIds :
          loops[l].pc \in {"y_capture", "y_decode"} /\ loops'[l].pc # loops[l].pc =>
            loops'[l].pc \in {"y_decode", "y_sleep"}]_vars
  /\ [][\A l \in LoopIds :
          loops[l].pc = "y_sleep" /\ loops'[l].pc # "y_sleep" =>
            IF oc._running
            THEN loops'[l].pc = "y_capture" /\ loops'[l].cycles = loops[l].cycles + 1
            ELSE loops'[l].pc = "ended"]_vars
  /\ \A l \in LoopIds :
       (loops[l].pc = "y_sleep" /\ loops[l].result \in {"null", "undecodable"}
          /\ shots < MaxShots)
         ~> (loops[l].pc = "y_capture" \/ ~oc._running)

\* a third cycle runs after a capture without a PNG and an undecodable PNG
C21_Witness ==
  \E l \in LoopIds :
    /\ loops[l].pc = "y_capture" /\ loops[l].cycles = 3
    /\ loops[l].result = "undecodable"
    /\ oc._running /\ oc._frameCount = 0

\* C22: a cycle whose capture gave no PNG or whose decode failed stores no
\* frame: the step that ends its try block leaves the frame buffer, the
\* captured-frame count, the last-frame time and every other field of the
\* capture as they are, and so do the steps that begin a cycle and that
\* receive the PNG.
C22_FailedCycleStoresNothing ==
  /\ [][\A l \in LoopIds :
          /\ loops[l].pc \in {"y_capture", "y_decode"} /\ loops'[l].pc = "y_sleep"
          /\ loops'[l].result \in {"null", "undecodable"}
          => /\ AdaptiveGetLatestFrame(oc') = AdaptiveGetLatestFrame(oc)
             /\ oc'._frameCount = oc._frameCount
             /\ oc'._lastFrameTime = oc._lastFrameTime
             /\ oc' = oc /\ published' = published]_vars
  /\ [][\A l \in LoopIds :
          \/ loops[l].pc = "y_sleep" /\ loops'[l].pc = "y_capture"
          \/ loops[l].pc = "y_capture" /\ loops'[l].pc = "y_decode"
          => oc' = oc /\ published' = published]_vars

\* a decode failed while the buffer held the frame of an earlier cycle
C22_Witness ==
  \E l \in LoopIds :
    /\ loops[l].pc = "y_sleep" /\ loops[l].result = "undecodable"
    /\ loops[l].cycles = 2
    /\ AdaptiveGetLatestFrame(oc).data = 1 /\ oc._frameCount = 1

\* C23: a transmission cycle reads the frame buffer once.  While the buffer
\* is empty no frame is handed to the sender and the sent count does not
\* grow; a frame that is handed to the sender is the one the buffer holds at
\* that moment, which is the frame stored last, and the sent count grows by
\* one with it; so the frames sent are in the order of their capture, with
\* repetitions and with gaps.
C23_SendsLatestFrame ==
  /\ [][AdaptiveGetLatestFrame(oc) = NullFrame =>
          /\ sent' = sent /\ tx'.frameCount <= tx.frameCount
          /\ sends'.pending <= sends.pending /\ sends'.thrown = sends.thrown]_vars
  /\ [][sent' # sent =>
          /\ sent' = Append(sent, AdaptiveGetLatestFrame(oc))
          /\ published # << >>
          /\ AdaptiveGetLatestFrame(oc) = published[Len(published)]
          /\ tx'.frameCount = tx.frameCount + 1
          /\ oc' = oc]_vars
  /\ [][tx'.frameCount > tx.frameCount => Len(sent') = Len(sent) + 1]_vars
  /\ [](\A i, j \in 1..Len(sent) : i <= j => sent[i].data <= sent[j].data)

\* the first frame was sent twice, the second never, the third once
C23_Witness ==
  /\ Len(sent) = 3
  /\ sent[1].data = 1 /\ sent[2].data = 1 /\ sent[3].data = 3
  /\ oc._frameCount = 3

\* C24: a send that fails, by an exception in _sendFrame or by a rejected
\* promise of sender.video(), leaves the sender as it was: the send timer
\* stays set and isRunning stays true.  A running sender has its timer, and
\* it stops running only by being destroyed.
C24_SendFailureKeepsLoop ==
  /\ [][sends'.thrown # sends.thrown \/ sends'.rejected # sends.rejected =>
          tx' = tx]_vars
  /\ [][tx.isRunning /\ ~tx'.isRunning => tx'.destroyed /\ ~tx.destroyed]_vars
  /\ [][tx.frameInterval # 0 /\ tx'.frameInterval = 0 => tx'.destroyed]_vars
  /\ [](tx.isRunning => tx.frameInterval # 0 /\ tx.sender)

\* a frame was handed to the sender after a send had failed
C24_Witness ==
  /\ sends.failedAt > 0
  /\ Len(sent) >= sends.failedAt
  /\ tx.isRunning

\* C25: neither loop waits for the other.  While a capture request or a
\* decode is in flight the send timer can fire, and a transmission cycle
\* leaves the capture and its loop as they are; while a send has not
\* completed the capture loop can start its next cycle and finish the
\* request and the decode it waits for, and a step of the capture loop leaves
\* the sender and its sends as they are.
C25_LoopsDoNotBlock ==
  /\ [](Capturing /\ tx.frameInterval # 0
          /\ (Sendable(tx, AdaptiveGetLatestFrame(oc)) =>
                Len(sent) + sends.thrown < MaxSends)
        => ENABLED sendTick(FALSE))
  /\ [](\A l \in LoopIds :
          sends.pending > 0 =>
            /\ loops[l].pc = "y_sleep" /\ Due(loops[l])
                 /\ (oc._running => shots < MaxShots) => ENABLED woke(l)
            /\ loops[l].pc = "y_capture" => ENABLED captureFrame_settled(l, TRUE)
            /\ loops[l].pc = "y_decode" => ENABLED decodePng_settled(l, TRUE))
  /\ [][sent' # sent \/ tx'.frameCount # tx.frameCount =>
          oc' = oc /\ loops' = loops /\ published' = published]_vars
  /\ [][loops' # loops \/ oc' # oc => tx' = tx /\ sent' = sent /\ sends' = sends]_vars

\* a frame was handed to the sender while a capture was in flight; the send
\* of the first frame has not completed, the second frame is stored and the
\* loop is in its next cycle
C25_Witness ==
  /\ sends.during
  /\ Len(sent) >= 1 /\ sent[1].data = 1
  /\ sends.pending = Len(sent)
  /\ oc._frameCount = 2
  /\ Capturing

\* C26: when there is no settings file, when it cannot be read or is not
\* JSON, and when its document is null or has no outputs, getEnabledOutputs
\* returns the empty list; the call of syncOutputs that starts on such
\* settings goes through with an empty list: it calls createOutput for no
\* output, no allocation of it fails, and it returns.
C26_UnusableFileMeansNoOutputs ==
  /\ [](file.kind # "outputs" => getEnabledOutputs(settings) = << >>)
  /\ [][\A r \in RunIds :
          runs[r].pc = "idle" /\ runs'[r].pc # "idle" /\ file'.kind # "outputs"
            => runs'[r].snap = << >>]_vars
  /\ [](\A r \in RunIds :
          runs[r].pc # "idle" /\ runs[r].snap = << >> =>
            /\ \A k \in Keys : runs[r].ops[k].create = 0
            /\ ~runs[r].failed
            /\ runs[r].pc \notin {"createOutput", "c_ret"})
  /\ [][\A r \in RunIds :
          runs[r].pc # "idle" /\ runs[r].snap = << >> /\ runs'[r].pc = "idle"
            => last'.valid /\ last'.snap = << >> /\ ~last'.failed]_vars

\* the file was replaced by a document without outputs while a pipeline ran;
\* the call of syncOutputs on it has returned and no pipeline is left
C26_Witness ==
  /\ file.kind = "noOutputs"
  /\ changes = 1
  /\ last.valid /\ last.snap = << >>
  /\ \A r \in RunIds : runs[r].pc = "idle"
  /\ \A k \in Keys : outputs[k] = 0
  /\ \E n \in Ids : ndi[n].destroyed

C28_ShutdownLeavesNothing ==
  down.pc = "exited" =>
    /\ \A k \in Keys : outputs[k] = 0
    /\ \A n \in Ids : ndi[n].frameInterval = 0 /\ ~ndi[n].sender
    /\ \A n \in Ids : ~cap[n].castOn /\ ~cap[n].pollOn
    /\ openPgs = {}

\* C28, without a change of the settings: shutdown() leaves no open sender
C28_Sequential ==
  down.pc = "exited" /\ changes = 0 =>
    /\ \A k \in Keys : outputs[k] = 0
    /\ \A n \in Ids : ndi[n].frameInterval = 0 /\ ~ndi[n].sender
    /\ \A n \in Ids : ~cap[n].castOn /\ ~cap[n].pollOn
    /\ openPgs = {}

\* C28, the second call: a call of shutdown() made while isShuttingDown is
\* set changes nothing
C28_SecondCallIsNoOp ==
  [][down.isShuttingDown /\ down'.calls > down.calls =>
       /\ UNCHANGED <<mainVars, oc, loops, now, shots, published, starts, txVars, file>>
       /\ down' = [down EXCEPT !.calls = @ + 1]]_vars

\* C29: the capture of every pipeline in the map, while it is running, has
\* exactly one strategy: a screencast subscription or a poll timer, not both
\* and not neither.
C29_ExactlyOneStrategy ==
  \A k \in Keys :
    outputs[k] # 0 /\ cap[outputs[k]]._running =>
      /\ cap[outputs[k]].castOn \/ cap[outputs[k]].pollOn
      /\ ~(cap[outputs[k]].castOn /\ cap[outputs[k]].pollOn)

\* C29, never both: no capture has a screencast subscription and a poll
\* timer at once
C29_NeverBoth ==
  \A n \in Ids :
    /\ ~(cap[n].castOn /\ cap[n].pollOn)
    /\ ~(cap[n]._stopScreencast /\ cap[n]._pollInterval # 0)

\* C29, the order: a capture gets its subscription or its poll timer only in
\* the step that ends its one attempt to subscribe, the poll timer only with
\* no subscription
C29_FallbackOnlyOnFailure ==
  [][\A n \in Ids :
       (~cap[n].pollOn /\ cap'[n].pollOn) \/ (~cap[n].castOn /\ cap'[n].castOn) =>
         /\ \E r \in RunIds :
              runs[r].pc = "y_cast" /\ runs[r].id = n /\ runs'[r].pc = "c_ret"
         /\ cap[n]._running /\ ~cap[n].pollOn /\ ~cap[n].castOn
         /\ cap'[n].pollOn => ~cap'[n]._stopScreencast]_vars

\* C30: the capture of every pipeline in the map has no screencast
\* subscription; while it is running it captures with its poll timer.
C30_PipelinesPoll ==
  \A k \in Keys :
    outputs[k] # 0 =>
      /\ ~cap[outputs[k]].castOn /\ ~cap[outputs[k]]._stopScreencast
      /\ cap[outputs[k]]._running => cap[outputs[k]]._pollInterval # 0

\* C31: a sender hands over a frame only from the buffer of the capture
\* that was constructed with it in the same createOutput, and only when that
\* capture has stored a frame of its own; a capture that has stored no frame
\* yet has an empty buffer, whatever the captures of earlier pipelines of
\* the same key store.
C31_NoFrameOfOldPipeline ==
  /\ [][\A n \in Ids :
          ndi[n].made /\ ndi'[n].frameCount > ndi[n].frameCount =>
            /\ ndi[n].getFrameFn = n
            /\ cap[n]._frameCount > 0
            /\ cap[n]._latestFrame # 0]_vars
  /\ [](\A n \in Ids : cap[n]._frameCount = 0 => getLatestFrame(cap[n]) = 0)
  /\ [](\A n \in Ids : ndi[n].getFrameFn \in {0, n})

\* a capture that was in flight when its pipeline was destroyed has stored
\* its frame; the pipeline recreated under the key sends from an empty buffer
C31_Witness ==
  \E k \in Keys : \E n, m \in Ids :
    /\ outputs[k] = n /\ m # n
    /\ cap[m].outputKey = k /\ ~cap[m]._running /\ cap[m]._latestFrame # 0
    /\ ndi[m].destroyed
    /\ ndi[n].frameInterval # 0 /\ ndi[n].frameCount = 0
    /\ cap[n]._running /\ cap[n]._latestFrame = 0

\* C32: a pushed frame reaches onFrame, and so _processFrame and the buffer,
\* only after its acknowledgement was sent and succeeded; a frame whose
\* acknowledgement failed ends in the handler's catch and is never decoded
\* or stored.
C32_AckBeforeOnFrame ==
  /\ [](\A l \in LoopIds :
          loops[l].pc = "y_decode" \/ loops[l].result \in {"skipped", "frame", "undecodable"}
            => loops[l].acked)
  /\ [](\A l \in LoopIds :
          loops[l].result = "unacked" => loops[l].pc = "ended" /\ ~loops[l].acked)
  /\ [](\A n \in 1..Len(published) :
          \E l \in LoopIds : loops[l].shot = published[n].data /\ loops[l].acked)
  /\ [][\A l \in LoopIds :
          loops[l].pc = "y_ack" /\ loops'[l] # loops[l] /\ ~loops'[l].acked =>
            oc' = oc /\ published' = published /\ loops'[l].pc = "ended"]_vars
  /\ [][\A l \in LoopIds : loops[l].result = "unacked" => loops'[l] = loops[l]]_vars

\* the acknowledgement of the first frame failed; the second was acknowledged
\* and stored
C32_Witness ==
  /\ \E l \in LoopIds : loops[l].shot = 1 /\ loops[l].result = "unacked"
  /\ \E l \in LoopIds : loops[l].shot = 2 /\ loops[l].acked /\ loops[l].result = "frame"
  /\ Len(published) = 1 /\ published[1].data = 2

\* C33: a pipeline whose width or height differs from the snapshot is only
\* destroyed and recreated: the call of syncOutputs that found the difference
\* calls neither setFramerate nor setSourceName for that output.
C33_RecreateOnly ==
  \A r \in RunIds :
    runs[r].needsRecreate =>
      /\ runs[r].ops[runs[r].key].setFramerate = 0
      /\ runs[r].ops[runs[r].key].setSourceName = 0

\* C34: no pipeline is orphaned: at most one pipeline of an output key has a
\* send timer or a running capture, and when no code is running every such
\* pipeline is the map entry of its key or the one a call of createOutput in
\* flight is still building.
C34_NoOrphan ==
  LET live(n) == ndi[n].frameInterval # 0 \/ cap[n]._running
  IN  /\ \A k \in Keys :
           Cardinality({n \in Ids : cap[n].outputKey = k /\ live(n)}) <= 1
      /\ active = 0 =>
           \A n \in Ids :
             live(n) => \/ \E k \in Keys : outputs[k] = n
                        \/ \E r \in InFlight : runs[r].id = n

\* the same for the behaviours in which the calls of syncOutputs never overlap
C34_Sequential == [](Cardinality(InFlight) <= 1) => []C34_NoOrphan

\* C35: once destroy() was called on a sender, and no initialize() or
\* setSourceName() was begun on it afterwards, it holds no native handle and
\* has no send timer, whatever call was suspended on it when destroy() ran.
C35_DestroyedStaysSilent ==
  tx.destroyed /\ (\A c \in CallIds : ~inits[c].late) =>
    ~tx.sender /\ tx.frameInterval = 0 /\ tx.timers = 0

\* C36: whenever no call of syncOutputs is in flight, the sender of every
\* entry of the active map holds a native handle and is sending.
C36_EntriesAreSending ==
  InFlight = {} =>
    \A k \in Keys :
      outputs[k] # 0 => ndi[outputs[k]].isRunning /\ ndi[outputs[k]].sender

\* C37: a capture that is running has at most one activation of _captureLoop
\* that has not ended, whatever the sequence of startPolling() and stop().
C37_OneCaptureLoop ==
  oc._running =>
    Cardinality({l \in LoopIds : loops[l].pc \in {"y_capture", "y_decode", "y_sleep"}}) <= 1

\* C38: after any sequence of initialize, startSending, stopSending,
\* setFramerate, setSourceName and destroy on one sender, it has at most one
\* send timer, isRunning is true exactly when it has a send timer, and
\* isRunning implies that it holds a native handle.
C38_OneTimer ==
  /\ tx.timers <= 1
  /\ tx.isRunning <=> tx.timers > 0
  /\ tx.isRunning <=> tx.frameInterval # 0
  /\ tx.isRunning => tx.sender

\* a sender that is sending again after a setSourceName that was begun while
\* another was suspended, and that had its framerate changed while sending
C38_Witness ==
  /\ tx.isRunning /\ tx.timers = 1 /\ tx.opened >= 2 /\ tx.released >= 1
  /\ tx.framerate = 60
  /\ \E c \in CallIds : inits[c].pc = "y_rename"

\* C39: once shutdown() has set isShuttingDown no step constructs a sender,
\* opens a page or stores a pipeline in the active map.
C39_NothingCreatedAfterShutdown ==
  [][down.isShuttingDown =>
       /\ \A n \in Ids : ndi'[n].made => ndi[n].made
       /\ openPgs' \subseteq openPgs
       /\ \A k \in Keys : outputs'[k] # 0 => outputs'[k] = outputs[k]]_vars

\* C39, the map alone: no pipeline is stored in the map after shutdown began
C39_NothingInserted ==
  [][down.isShuttingDown =>
       \A k \in Keys : outputs'[k] # 0 => outputs'[k] = outputs[k]]_vars

\* C40: the capture timestamp of the frame in the buffer never decreases:
\* of two frames stored one after the other, the later has a timestamp that
\* is not smaller.
C40_TimestampsNeverDecrease ==
  \A i \in 1..Len(published) : \A j \in 1..Len(published) :
    i <= j => published[i].timestamp <= published[j].timestamp

TypeOK ==
  /\ active \in 0..MaxInFlight
  /\ \A k \in Keys : outputs[k] \in 0..MaxObj
====
